---- MODULE Spec2Model ----
(***************************************************************************)
(* A model of the Matroska/WebM demuxer of matroska-go: the EBML reader    *)
(* (ebml.go), the metadata walk and the packet reader (parser.go) and the  *)
(* Demuxer facade (matroska.go).                                           *)
(*                                                                         *)
(* Files are byte strings (sequences over 0..255) and the decoder is       *)
(* modelled byte by byte.  A Go uint64/int64 is a tuple of 8 bytes, most   *)
(* significant first, so that 56-bit VINT values, the unknown-size         *)
(* sentinel and wrap-around modulo 2^64 keep their width.  A Go error is a *)
(* sequence of messages: <<>> is nil, fmt.Errorf("m: %w", e) puts m in     *)
(* front of e, so `err == io.EOF` is equality with <<"EOF">>.              *)
(***************************************************************************)
EXTENDS Integers, Sequences, FiniteSets, TLC

\* ------------------------------------------------------------------------
\* 64-bit integers as 8 big-endian bytes
\* ------------------------------------------------------------------------
Zero64 == <<0, 0, 0, 0, 0, 0, 0, 0>>

\* the uint64 of a small natural (n < 2^31)
U64(n) == <<0, 0, 0, 0, (n \div 16777216) % 256, (n \div 65536) % 256,
            (n \div 256) % 256, n % 256>>

\* v < 2^31, so that Nat64(v) is a number TLC can hold
IsSmall(v) == v[1] = 0 /\ v[2] = 0 /\ v[3] = 0 /\ v[4] = 0 /\ v[5] < 128

Nat64(v) == ((v[5] * 256 + v[6]) * 256 + v[7]) * 256 + v[8]

RECURSIVE CarryIn(_, _, _)
CarryIn(a, b, i) ==
    IF i = 8 THEN 0 ELSE (a[i + 1] + b[i + 1] + CarryIn(a, b, i + 1)) \div 256

\* a + b modulo 2^64
Add64(a, b) ==
    <<(a[1] + b[1] + CarryIn(a, b, 1)) % 256, (a[2] + b[2] + CarryIn(a, b, 2)) % 256,
      (a[3] + b[3] + CarryIn(a, b, 3)) % 256, (a[4] + b[4] + CarryIn(a, b, 4)) % 256,
      (a[5] + b[5] + CarryIn(a, b, 5)) % 256, (a[6] + b[6] + CarryIn(a, b, 6)) % 256,
      (a[7] + b[7] + CarryIn(a, b, 7)) % 256, (a[8] + b[8] + CarryIn(a, b, 8)) % 256>>

Neg64(a) ==
    Add64(<<255 - a[1], 255 - a[2], 255 - a[3], 255 - a[4],
            255 - a[5], 255 - a[6], 255 - a[7], 255 - a[8]>>, U64(1))

\* a - b modulo 2^64
Sub64(a, b) == Add64(a, Neg64(b))

\* the digit sum of a * b at byte k: the a[i] * b[j] with i + j = 8 + k
RECURSIVE MulColumn(_, _, _, _)
MulColumn(a, b, k, i) ==
    IF i > 8 THEN 0 ELSE a[i] * b[8 + k - i] + MulColumn(a, b, k, i + 1)

RECURSIVE MulCarry(_, _, _)
MulCarry(a, b, k) ==
    IF k = 8 THEN 0 ELSE (MulColumn(a, b, k + 1, k + 1) + MulCarry(a, b, k + 1)) \div 256

MulDigit(a, b, k) == (MulColumn(a, b, k, k) + MulCarry(a, b, k)) % 256

\* a * b modulo 2^64
Mul64(a, b) ==
    <<MulDigit(a, b, 1), MulDigit(a, b, 2), MulDigit(a, b, 3), MulDigit(a, b, 4),
      MulDigit(a, b, 5), MulDigit(a, b, 6), MulDigit(a, b, 7), MulDigit(a, b, 8)>>

\* unsigned a < b
Less64(a, b) == \E i \in 1..8 : a[i] < b[i] /\ \A j \in 1..(i - 1) : a[j] = b[j]

\* signed (int64) a < b
SLess64(a, b) ==
    IF (a[1] >= 128) # (b[1] >= 128) THEN a[1] >= 128 ELSE Less64(a, b)

\* (result << 8) | b on a uint64
Shl8Or(result, b) ==
    <<result[2], result[3], result[4], result[5], result[6], result[7], result[8], b>>

\* ------------------------------------------------------------------------
\* errors
\* ------------------------------------------------------------------------
nil == <<>>
EOF == <<"EOF">>
ErrUnexpectedEOF == <<"unexpected EOF">>

\* a runtime panic aborts the call: it is carried like an error that no
\* caller wraps or compares
Panic(msg) == <<"panic", msg>>
IsPanic(err) == Len(err) > 0 /\ err[1] = "panic"

\* errors.New / fmt.Errorf without %w
New(msg) == <<msg>>

\* fmt.Errorf(msg + ": %w", err)
Errorf(msg, err) == IF IsPanic(err) THEN err ELSE <<msg>> \o err

\* ------------------------------------------------------------------------
\* the byte source: a bytes.Reader/os.File (Seek works) or a fakeSeeker
\* (Seek always fails).  A stream is [bytes, kind]; its offset is kept in
\* the reader record [off, pos]: off is the source's own offset, pos is
\* EBMLReader.pos.
\* ------------------------------------------------------------------------
Remaining(bytes, off) ==
    IF IsSmall(off) /\ Nat64(off) < Len(bytes) THEN Len(bytes) - Nat64(off) ELSE 0

\* r.Read(b[:]) with a 1-byte buffer
Read1(bytes, off) ==
    IF Remaining(bytes, off) > 0
    THEN [b |-> bytes[Nat64(off) + 1], err |-> nil, off |-> Add64(off, U64(1))]
    ELSE [b |-> 0, err |-> EOF, off |-> off]

\* io.ReadFull(r, data) with len(data) = size (size is a uint64)
ReadFull(bytes, off, size) ==
    LET avail == Remaining(bytes, off) IN
    IF size = Zero64
    THEN [n |-> 0, data |-> <<>>, err |-> nil, off |-> off]
    ELSE IF IsSmall(size) /\ Nat64(size) <= avail
    THEN [n |-> Nat64(size),
          data |-> SubSeq(bytes, Nat64(off) + 1, Nat64(off) + Nat64(size)),
          err |-> nil, off |-> Add64(off, size)]
    ELSE [n |-> avail,
          data |-> IF avail = 0 THEN <<>>
                   ELSE SubSeq(bytes, Nat64(off) + 1, Len(bytes)),
          err |-> IF avail = 0 THEN EOF ELSE ErrUnexpectedEOF,
          off |-> Add64(off, U64(avail))]

\* the largest slice make([]byte, size) allocates; above it the runtime panics
MaxAlloc == <<0, 1, 0, 0, 0, 0, 0, 0>>

make(size) == IF Less64(MaxAlloc, size) THEN Panic("makeslice: len out of range") ELSE nil

\* fakeSeeker.Seek: always position -1 and an error
fakeSeekerSeek(off, offset) ==
    [pos |-> Neg64(U64(1)), err |-> New("this is a fake seeker")]

\* r.Seek(offset, io.SeekCurrent) on the underlying source: a seekable
\* source moves to off + offset, also past its end
SourceSeek(kind, off, offset) ==
    IF kind = "fakeSeeker" THEN fakeSeekerSeek(off, offset)
    ELSE LET abs == Add64(off, offset) IN
         IF abs[1] >= 128
         THEN [pos |-> Zero64, err |-> New("negative position")]
         ELSE [pos |-> abs, err |-> nil]

\* ------------------------------------------------------------------------
\* element IDs (uint32, as 4 bytes) and strings (as bytes)
\* ------------------------------------------------------------------------
IDEBMLHeader == <<26, 69, 223, 163>>
IDEBMLVersion == <<0, 0, 66, 134>>
IDEBMLReadVersion == <<0, 0, 66, 247>>
IDEBMLMaxIDLength == <<0, 0, 66, 242>>
IDEBMLMaxSizeLength == <<0, 0, 66, 243>>
IDEBMLDocType == <<0, 0, 66, 130>>
IDEBMLDocTypeVersion == <<0, 0, 66, 135>>
IDEBMLDocTypeReadVersion == <<0, 0, 66, 133>>
IDSegment == <<24, 83, 128, 103>>
IDSegmentInfo == <<21, 73, 169, 102>>
IDTimestampScale == <<0, 42, 215, 177>>
IDTitle == <<0, 0, 123, 169>>
IDDuration == <<0, 0, 68, 137>>
IDMuxingApp == <<0, 0, 77, 128>>
IDWritingApp == <<0, 0, 87, 65>>
IDTracks == <<22, 84, 174, 107>>
IDTrackEntry == <<0, 0, 0, 174>>
IDTrackNum == <<0, 0, 0, 215>>
IDTrackType == <<0, 0, 0, 131>>
IDTrackName == <<0, 0, 83, 110>>
IDCodecID == <<0, 0, 0, 134>>
IDCluster == <<31, 67, 182, 117>>
IDTimestamp == <<0, 0, 0, 231>>
IDSimpleBlock == <<0, 0, 0, 163>>
IDBlockGroup == <<0, 0, 0, 160>>
IDBlock == <<0, 0, 0, 161>>
IDBlockDuration == <<0, 0, 0, 155>>
IDCues == <<28, 83, 187, 107>>
IDChapters == <<16, 67, 167, 112>>
IDTags == <<18, 84, 195, 103>>
IDAttachments == <<25, 65, 164, 105>>

matroska == <<109, 97, 116, 114, 111, 115, 107, 97>>
webm == <<119, 101, 98, 109>>

\* ------------------------------------------------------------------------
\* EBMLReader (ebml.go).  A reader is [off, pos] over a source [bytes, kind].
\* ------------------------------------------------------------------------
NewEBMLReader == [off |-> Zero64, pos |-> Zero64]

\* the length announced by the first byte of a VINT (0: no marker)
VIntLength(firstByte) ==
    IF firstByte >= 128 THEN 1 ELSE IF firstByte >= 64 THEN 2
    ELSE IF firstByte >= 32 THEN 3 ELSE IF firstByte >= 16 THEN 4
    ELSE IF firstByte >= 8 THEN 5 ELSE IF firstByte >= 4 THEN 6
    ELSE IF firstByte >= 2 THEN 7 ELSE IF firstByte >= 1 THEN 8 ELSE 0

\* a lengthMask one bit too high: 0x100 >> (length - 1)
LengthMaskShifted(length) == 2 ^ (9 - length)

\* lengthMask: 0x80 >> (length - 1)
LengthMask(length) == 2 ^ (8 - length)

\* the loop `for i := 1; i < length; i++` of readVInt; rd is what
\* er.r.Read(b[:]) returned in the iteration
RECURSIVE readVIntRest(_, _, _, _, _)
RECURSIVE readVIntByte(_, _, _, _, _, _)
\* an iteration that returns what it has accumulated when the read fails
readVIntBytePartial(src, er, result, i, length, rd) ==
    IF rd.err # nil THEN [val |-> result, err |-> rd.err, er |-> er]
    ELSE readVIntRest(src, [off |-> rd.off, pos |-> Add64(er.pos, U64(1))],
                      Shl8Or(result, rd.b), i + 1, length)

readVIntByte(src, er, result, i, length, rd) ==
    IF rd.err # nil THEN [val |-> Zero64, err |-> rd.err, er |-> er]
    ELSE readVIntRest(src, [off |-> rd.off, pos |-> Add64(er.pos, U64(1))],
                      Shl8Or(result, rd.b), i + 1, length)

readVIntRest(src, er, result, i, length) ==
    IF i >= length THEN [val |-> result, err |-> nil, er |-> er]
    ELSE readVIntByte(src, er, result, i, length, Read1(src.bytes, er.off))

\* readVInt after the read of the first byte, rd
readVIntFirst(src, er, keepLengthMarker, rd) ==
    IF rd.err # nil THEN [val |-> Zero64, err |-> rd.err, er |-> er]
    ELSE IF rd.b = 0
    THEN [val |-> Zero64, err |-> New("invalid VINT: first byte is 0"),
          er |-> [off |-> rd.off, pos |-> Add64(er.pos, U64(1))]]
    ELSE readVIntRest(src, [off |-> rd.off, pos |-> Add64(er.pos, U64(1))],
                      IF keepLengthMarker THEN U64(rd.b)
                      ELSE U64(rd.b % LengthMask(VIntLength(rd.b))),
                      1, VIntLength(rd.b))

readVInt(src, er, keepLengthMarker) ==
    readVIntFirst(src, er, keepLengthMarker, Read1(src.bytes, er.off))

ReadVInt(src, er) == readVInt(src, er, FALSE)

ReadVIntID(src, er) == readVInt(src, er, TRUE)

\* uint32(id)
Uint32(v) == <<v[5], v[6], v[7], v[8]>>

\* (1<<(7*8))-1, the only size ReadElement rejects as unknown
UnknownSize == <<0, 255, 255, 255, 255, 255, 255, 255>>

NoElement == [ID |-> <<0, 0, 0, 0>>, Size |-> Zero64, Data |-> <<>>]

\* a ReadElement that does not count the payload in er.pos
ReadElementDataUncounted(idr, szr, rf) ==
    IF rf.err # nil
    THEN [el |-> NoElement, err |-> Errorf("failed to read element data", rf.err),
          er |-> [off |-> rf.off, pos |-> szr.er.pos]]
    ELSE [el |-> [ID |-> Uint32(idr.val), Size |-> szr.val, Data |-> rf.data],
          err |-> nil,
          er |-> [off |-> rf.off, pos |-> szr.er.pos]]

\* ReadElement after io.ReadFull(er.r, data) returned rf
ReadElementData(idr, szr, rf) ==
    IF rf.err # nil
    THEN [el |-> NoElement, err |-> Errorf("failed to read element data", rf.err),
          er |-> [off |-> rf.off, pos |-> szr.er.pos]]
    ELSE [el |-> [ID |-> Uint32(idr.val), Size |-> szr.val, Data |-> rf.data],
          err |-> nil,
          er |-> [off |-> rf.off, pos |-> Add64(szr.er.pos, U64(rf.n))]]

\* ReadElement after er.ReadVInt() returned szr
ReadElementSize(src, idr, szr) ==
    IF szr.err # nil
    THEN [el |-> NoElement, err |-> Errorf("failed to read element size", szr.err), er |-> szr.er]
    ELSE IF szr.val = UnknownSize
    THEN [el |-> NoElement, err |-> New("unknown size elements not supported"), er |-> szr.er]
    ELSE IF make(szr.val) # nil
    THEN [el |-> NoElement, err |-> make(szr.val), er |-> szr.er]
    ELSE ReadElementData(idr, szr, ReadFull(src.bytes, szr.er.off, szr.val))

\* ReadElement after er.ReadVIntID() returned idr
ReadElementID(src, idr) ==
    IF idr.err # nil
    THEN [el |-> NoElement, err |-> Errorf("failed to read element ID", idr.err), er |-> idr.er]
    ELSE ReadElementSize(src, idr, ReadVInt(src, idr.er))

ReadElement(src, er) == ReadElementID(src, ReadVIntID(src, er))

\* EBMLReader.Seek(offset, io.SeekCurrent)
SeekResult(er, sk) ==
    IF sk.err # nil THEN [err |-> sk.err, er |-> er]
    ELSE [err |-> nil, er |-> [off |-> sk.pos, pos |-> sk.pos]]

\* a seek that counts the offset from the start of the source
SeekFromStart(src, er, offset) == SeekResult(er, SourceSeek(src.kind, Zero64, offset))

Seek(src, er, offset) == SeekResult(er, SourceSeek(src.kind, er.off, offset))

Position(er) == er.pos

RECURSIVE ReadUIntFrom(_, _, _)
ReadUIntFrom(data, i, result) ==
    IF i > Len(data) THEN result ELSE ReadUIntFrom(data, i + 1, Shl8Or(result, data[i]))

ReadUInt(el) == ReadUIntFrom(el.Data, 1, Zero64)

\* strips one trailing NUL
ReadString(el) ==
    IF Len(el.Data) > 0 /\ el.Data[Len(el.Data)] = 0
    THEN SubSeq(el.Data, 1, Len(el.Data) - 1) ELSE el.Data

\* ReadElementHeader after er.ReadVInt() returned szr
ReadElementHeaderSize(idr, szr) ==
    IF szr.err # nil
    THEN [id |-> <<0, 0, 0, 0>>, size |-> Zero64,
          err |-> Errorf("failed to read element size", szr.err), er |-> szr.er]
    ELSE [id |-> Uint32(idr.val), size |-> szr.val, err |-> nil, er |-> szr.er]

\* ReadElementHeader after er.ReadVIntID() returned idr
ReadElementHeaderID(src, idr) ==
    IF idr.err # nil
    THEN [id |-> <<0, 0, 0, 0>>, size |-> Zero64,
          err |-> Errorf("failed to read element ID", idr.err), er |-> idr.er]
    ELSE ReadElementHeaderSize(idr, ReadVInt(src, idr.er))

ReadElementHeader(src, er) == ReadElementHeaderID(src, ReadVIntID(src, er))

\* a SkipElement that moves the stream and leaves er.pos
SkipElementResultUncounted(er, size, sk) ==
    IF sk.err # nil THEN [err |-> sk.err, er |-> er]
    ELSE [err |-> nil, er |-> [off |-> sk.pos, pos |-> er.pos]]

\* SkipElement after er.r.Seek(int64(element.Size), io.SeekCurrent) returned sk
SkipElementResult(er, size, sk) ==
    IF sk.err # nil THEN [err |-> sk.err, er |-> er]
    ELSE [err |-> nil, er |-> [off |-> sk.pos, pos |-> Add64(er.pos, size)]]

\* EBMLReader.SkipElement(element) with element.Size = size
SkipElement(src, er, size) ==
    SkipElementResult(er, size, SourceSeek(src.kind, er.off, size))

\* bytes.NewReader(data) wrapped in a seekableReader
ChildSource(data) == [bytes |-> data, kind |-> "bytes.Reader"]

NoHeader ==
    [Version |-> Zero64, ReadVersion |-> Zero64, MaxIDLength |-> Zero64,
     MaxSizeLength |-> Zero64, DocType |-> <<>>, DocTypeVersion |-> Zero64,
     DocTypeReadVersion |-> Zero64]

\* the switch over the header's children
HeaderChild(header, el) ==
    IF el.ID = IDEBMLVersion THEN [header EXCEPT !.Version = ReadUInt(el)]
    ELSE IF el.ID = IDEBMLReadVersion THEN [header EXCEPT !.ReadVersion = ReadUInt(el)]
    ELSE IF el.ID = IDEBMLMaxIDLength THEN [header EXCEPT !.MaxIDLength = ReadUInt(el)]
    ELSE IF el.ID = IDEBMLMaxSizeLength THEN [header EXCEPT !.MaxSizeLength = ReadUInt(el)]
    ELSE IF el.ID = IDEBMLDocType THEN [header EXCEPT !.DocType = ReadString(el)]
    ELSE IF el.ID = IDEBMLDocTypeVersion THEN [header EXCEPT !.DocTypeVersion = ReadUInt(el)]
    ELSE IF el.ID = IDEBMLDocTypeReadVersion
    THEN [header EXCEPT !.DocTypeReadVersion = ReadUInt(el)]
    ELSE header

\* the loop over the header payload
RECURSIVE ReadEBMLHeaderChildren(_, _, _)
RECURSIVE ReadEBMLHeaderNext(_, _, _)
\* one iteration of the loop, after headerReader.ReadElement() returned r
ReadEBMLHeaderNext(data, header, r) ==
    IF r.err # nil
    THEN IF r.err = EOF THEN [header |-> header, err |-> nil]
         ELSE [header |-> NoHeader,
               err |-> Errorf("failed to read header child element", r.err)]
    ELSE ReadEBMLHeaderChildren(data, r.er, HeaderChild(header, r.el))

ReadEBMLHeaderChildren(data, er, header) ==
    IF ~SLess64(er.pos, U64(Len(data))) THEN [header |-> header, err |-> nil]
    ELSE ReadEBMLHeaderNext(data, header, ReadElement(ChildSource(data), er))

\* ReadEBMLHeader after the loop over the children returned c
ReadEBMLHeaderResult(r, c) == [header |-> c.header, err |-> c.err, er |-> r.er]

\* ReadEBMLHeader after er.ReadElement() returned r
ReadEBMLHeaderElement(r) ==
    IF r.err # nil
    THEN [header |-> NoHeader, err |-> Errorf("failed to read EBML header", r.err), er |-> r.er]
    ELSE IF r.el.ID # IDEBMLHeader
    THEN [header |-> NoHeader, err |-> New("expected EBML header"), er |-> r.er]
    ELSE ReadEBMLHeaderResult(r, ReadEBMLHeaderChildren(r.el.Data, NewEBMLReader, NoHeader))

ReadEBMLHeader(src, er) == ReadEBMLHeaderElement(ReadElement(src, er))

\* ------------------------------------------------------------------------
\* MatroskaParser (parser.go).  Pointers that may be nil (header, segment,
\* fileInfo, a returned packet) are sequences of length 0 or 1.
\* ------------------------------------------------------------------------
\* &MatroskaParser{reader: NewEBMLReader(r), avoidSeeks: avoidSeeks}
NewParser(avoidSeeks) ==
    [reader |-> NewEBMLReader, header |-> <<>>, segment |-> <<>>, tracks |-> <<>>,
     fileInfo |-> <<>>, clusterTimestamp |-> Zero64,
     segmentPos |-> Zero64, segmentTopPos |-> Zero64,
     cuesPos |-> Zero64, cuesTopPos |-> Zero64, avoidSeeks |-> avoidSeeks]

\* parseHeader after mp.reader.ReadEBMLHeader() returned r
parseHeaderResult(mp, r) ==
    IF r.err # nil THEN [mp |-> [mp EXCEPT !.reader = r.er], err |-> r.err]
    ELSE IF r.header.DocType # matroska /\ r.header.DocType # webm
    THEN [mp |-> [mp EXCEPT !.reader = r.er], err |-> New("unsupported document type")]
    ELSE [mp |-> [mp EXCEPT !.reader = r.er, !.header = <<r.header>>], err |-> nil]

parseHeader(src, mp) == parseHeaderResult(mp, ReadEBMLHeader(src, mp.reader))

\* parseSegment after mp.reader.ReadElementHeader() returned h
parseSegmentHeader(mp, h) ==
    IF h.err # nil
    THEN [mp |-> [mp EXCEPT !.reader = h.er],
          err |-> Errorf("failed to read segment header", h.err)]
    ELSE IF h.id # IDSegment
    THEN [mp |-> [mp EXCEPT !.reader = h.er], err |-> New("expected segment element")]
    ELSE [mp |-> [mp EXCEPT !.reader = h.er,
                            !.segment = <<[Position |-> Position(h.er), Size |-> h.size]>>,
                            !.segmentPos = Position(h.er),
                            !.segmentTopPos = Add64(Position(h.er), h.size)],
          err |-> nil]

\* parseSegment up to its call of parseSegmentChildren
parseSegment(src, mp) == parseSegmentHeader(mp, ReadElementHeader(src, mp.reader))

\* &SegmentInfo{TimecodeScale: 1000000}
DefaultTimecodeScale == U64(1000000)

NewSegmentInfo ==
    [Title |-> <<>>, TimecodeScale |-> DefaultTimecodeScale, Duration |-> Zero64,
     MuxingApp |-> <<>>, WritingApp |-> <<>>]

\* the switch over the children of SegmentInfo
SegmentInfoChild(info, el) ==
    IF el.ID = IDTimestampScale THEN [info EXCEPT !.TimecodeScale = ReadUInt(el)]
    ELSE IF el.ID = IDDuration THEN [info EXCEPT !.Duration = ReadUInt(el)]
    ELSE IF el.ID = IDTitle THEN [info EXCEPT !.Title = ReadString(el)]
    ELSE IF el.ID = IDMuxingApp THEN [info EXCEPT !.MuxingApp = ReadString(el)]
    ELSE IF el.ID = IDWritingApp THEN [info EXCEPT !.WritingApp = ReadString(el)]
    ELSE info

RECURSIVE parseSegmentInfoChildren(_, _, _)
RECURSIVE parseSegmentInfoNext(_, _, _)
\* one iteration of the loop, after reader.ReadElement() returned r
parseSegmentInfoNext(data, info, r) ==
    IF r.err # nil
    THEN IF r.err = EOF THEN [info |-> info, err |-> nil]
         ELSE [info |-> info, err |-> r.err]
    ELSE parseSegmentInfoChildren(data, r.er, SegmentInfoChild(info, r.el))

parseSegmentInfoChildren(data, er, info) ==
    IF ~SLess64(er.pos, U64(Len(data))) THEN [info |-> info, err |-> nil]
    ELSE parseSegmentInfoNext(data, info, ReadElement(ChildSource(data), er))

\* parseSegmentInfo after the loop over the children returned c
parseSegmentInfoResult(mp, rf, c) ==
    [mp |-> [mp EXCEPT !.reader.off = rf.off, !.fileInfo = <<c.info>>], err |-> c.err]

\* parseSegmentInfo after io.ReadFull(mp.reader.r, data) returned rf
parseSegmentInfoData(mp, rf) ==
    IF rf.err # nil THEN [mp |-> [mp EXCEPT !.reader.off = rf.off], err |-> rf.err]
    ELSE parseSegmentInfoResult(mp, rf,
             parseSegmentInfoChildren(rf.data, NewEBMLReader, NewSegmentInfo))

\* the payload is read from mp.reader.r directly: the source advances,
\* mp.reader.pos does not
parseSegmentInfo(src, mp, size) ==
    IF make(size) # nil THEN [mp |-> mp, err |-> make(size)]
    ELSE parseSegmentInfoData(mp, ReadFull(src.bytes, mp.reader.off, size))

\* &TrackInfo{Enabled: true, Default: true, Lacing: true, Language: "eng"}
NewTrackInfo == [Number |-> 0, Type |-> 0, Name |-> <<>>, CodecID |-> <<>>]

\* the switch over the children of a TrackEntry (uint8(x) is the low byte)
TrackEntryChild(track, el) ==
    IF el.ID = IDTrackNum THEN [track EXCEPT !.Number = ReadUInt(el)[8]]
    ELSE IF el.ID = IDTrackType THEN [track EXCEPT !.Type = ReadUInt(el)[8]]
    ELSE IF el.ID = IDTrackName THEN [track EXCEPT !.Name = ReadString(el)]
    ELSE IF el.ID = IDCodecID THEN [track EXCEPT !.CodecID = ReadString(el)]
    ELSE track

RECURSIVE parseTrackEntryChildren(_, _, _)
RECURSIVE parseTrackEntryNext(_, _, _)
\* one iteration of the loop, after reader.ReadElement() returned r
parseTrackEntryNext(data, track, r) ==
    IF r.err # nil
    THEN IF r.err = EOF THEN [track |-> track, err |-> nil]
         ELSE [track |-> track, err |-> r.err]
    ELSE parseTrackEntryChildren(data, r.er, TrackEntryChild(track, r.el))

parseTrackEntryChildren(data, er, track) ==
    IF ~SLess64(er.pos, U64(Len(data))) THEN [track |-> track, err |-> nil]
    ELSE parseTrackEntryNext(data, track, ReadElement(ChildSource(data), er))

parseTrackEntry(data) == parseTrackEntryChildren(data, NewEBMLReader, NewTrackInfo)

\* sort.Slice(tracks, func(i, j) { tracks[i].Number < tracks[j].Number }):
\* the slice is left in ascending order of Number; sort.Slice does not
\* promise to keep the order of equal elements, so every ascending
\* arrangement of the entries is an outcome
SortSlice(tracks) ==
    {s \in {[i \in 1..Len(tracks) |-> tracks[p[i]]] : p \in Permutations(1..Len(tracks))} :
        \A i \in 1..(Len(s) - 1) : ~(s[i + 1].Number < s[i].Number)}

RECURSIVE parseTracksChildren(_, _, _)
RECURSIVE parseTracksEntry(_, _, _, _)
RECURSIVE parseTracksNext(_, _, _)
\* the TrackEntry case, after mp.parseTrackEntry(element.Data) returned t
parseTracksEntry(data, tracks, r, t) ==
    IF t.err # nil
    THEN [tracks |-> tracks, err |-> Errorf("failed to parse track entry", t.err),
          sort |-> FALSE]
    ELSE parseTracksChildren(data, r.er, Append(tracks, t.track))

\* one iteration of the loop, after reader.ReadElement() returned r
parseTracksNext(data, tracks, r) ==
    IF r.err # nil
    THEN IF r.err = EOF THEN [tracks |-> tracks, err |-> nil, sort |-> TRUE]
         ELSE [tracks |-> tracks, err |-> r.err, sort |-> FALSE]
    ELSE IF r.el.ID = IDTrackEntry
    THEN parseTracksEntry(data, tracks, r, parseTrackEntry(r.el.Data))
    ELSE parseTracksChildren(data, r.er, tracks)

parseTracksChildren(data, er, tracks) ==
    IF ~SLess64(er.pos, U64(Len(data))) THEN [tracks |-> tracks, err |-> nil, sort |-> TRUE]
    ELSE parseTracksNext(data, tracks, ReadElement(ChildSource(data), er))

\* parseTracks after the loop over the children returned c
\* sort: the function went on to sort.Slice(mp.tracks, ...)
parseTracksResult(mp, rf, c) ==
    [mp |-> [mp EXCEPT !.reader.off = rf.off, !.tracks = c.tracks],
     err |-> c.err, sort |-> c.sort]

\* parseTracks after io.ReadFull(mp.reader.r, data) returned rf
parseTracksData(mp, rf) ==
    IF rf.err # nil
    THEN [mp |-> [mp EXCEPT !.reader.off = rf.off], err |-> rf.err, sort |-> FALSE]
    ELSE parseTracksResult(mp, rf, parseTracksChildren(rf.data, NewEBMLReader, mp.tracks))

parseTracks(src, mp, size) ==
    IF make(size) # nil THEN [mp |-> mp, err |-> make(size), sort |-> FALSE]
    ELSE parseTracksData(mp, ReadFull(src.bytes, mp.reader.off, size))

\* parseCues, parseChapters, parseTags, parseAttachments and the default
\* case: mp.reader.Seek(int64(size), io.SeekCurrent)
skipElementResult(mp, sk) == [mp |-> [mp EXCEPT !.reader = sk.er], err |-> sk.err]

skipElement(src, mp, size) == skipElementResult(mp, Seek(src, mp.reader, size))

\* One iteration of the loop of parseSegmentChildren.  done: the function
\* returns (err is its result); otherwise the loop goes round again.
\* a case of the switch, after the child's parser returned r:
\* `if err := ...; err != nil { return fmt.Errorf(msg, err) }`
parseSegmentChild(r, msg) ==
    [mp |-> r.mp, err |-> IF r.err # nil THEN Errorf(msg, r.err) ELSE nil,
     done |-> r.err # nil, sort |-> FALSE]

\* the Tracks case, after mp.parseTracks(size) returned r
parseSegmentTracks(r) ==
    [mp |-> r.mp,
     err |-> IF r.err # nil THEN Errorf("failed to parse tracks", r.err) ELSE nil,
     done |-> r.err # nil, sort |-> r.sort]

\* the switch over the child's ID; mp1 is the parser after the header was
\* read, h the header
parseSegmentSwitch(src, mp1, h) ==
    IF h.id = IDSegmentInfo
    THEN parseSegmentChild(parseSegmentInfo(src, mp1, h.size), "failed to parse segment info")
    ELSE IF h.id = IDTracks
    THEN parseSegmentTracks(parseTracks(src, mp1, h.size))
    ELSE IF h.id = IDCues
    THEN parseSegmentChild(
             skipElement(src, [mp1 EXCEPT !.cuesPos = Position(h.er),
                                          !.cuesTopPos = Add64(Position(h.er), h.size)],
                         h.size), "failed to parse cues")
    ELSE IF h.id = IDChapters
    THEN parseSegmentChild(skipElement(src, mp1, h.size), "failed to parse chapters")
    ELSE IF h.id = IDTags
    THEN parseSegmentChild(skipElement(src, mp1, h.size), "failed to parse tags")
    ELSE IF h.id = IDAttachments
    THEN parseSegmentChild(skipElement(src, mp1, h.size), "failed to parse attachments")
    ELSE IF h.id = IDCluster /\ ~mp1.avoidSeeks
    THEN [mp |-> mp1, err |-> nil, done |-> TRUE, sort |-> FALSE]
    ELSE parseSegmentChild(skipElement(src, mp1, h.size), "failed to skip element")

\* one iteration, after mp.reader.ReadElementHeader() returned h
parseSegmentChildrenHeader(src, mp, h) ==
    IF h.err # nil
    THEN IF h.err = EOF
         THEN [mp |-> [mp EXCEPT !.reader = h.er], err |-> nil, done |-> TRUE,
               sort |-> FALSE]
         ELSE [mp |-> [mp EXCEPT !.reader = h.er],
               err |-> Errorf("failed to read element header", h.err), done |-> TRUE,
               sort |-> FALSE]
    ELSE parseSegmentSwitch(src, [mp EXCEPT !.reader = h.er], h)

parseSegmentChildren(src, mp) ==
    IF ~SLess64(Position(mp.reader), Add64(mp.segment[1].Position, mp.segment[1].Size))
    THEN [mp |-> mp, err |-> nil, done |-> TRUE, sort |-> FALSE]
    ELSE parseSegmentChildrenHeader(src, mp, ReadElementHeader(src, mp.reader))

\* ------------------------------------------------------------------------
\* the packet reader
\* ------------------------------------------------------------------------
RECURSIVE parseVIntRest(_, _, _, _)
parseVIntRest(data, result, i, length) ==
    IF i >= length THEN result
    ELSE parseVIntRest(data, Shl8Or(result, data[i + 1]), i + 1, length)

\* a parseVInt that keeps the length marker in the value
parseVIntMarked(data) ==
    IF Len(data) = 0 THEN [val |-> Zero64, n |-> 0]
    ELSE IF data[1] = 0 THEN [val |-> Zero64, n |-> 0]
    ELSE IF Len(data) < VIntLength(data[1]) THEN [val |-> Zero64, n |-> 0]
    ELSE [val |-> parseVIntRest(data, U64(data[1]), 1, VIntLength(data[1])),
          n |-> VIntLength(data[1])]

\* parseVInt(data): (value, bytes used); 0 bytes used on failure
parseVInt(data) ==
    IF Len(data) = 0 THEN [val |-> Zero64, n |-> 0]
    ELSE IF data[1] = 0 THEN [val |-> Zero64, n |-> 0]
    ELSE LET length == VIntLength(data[1]) IN
         IF length = 0 \/ Len(data) < length THEN [val |-> Zero64, n |-> 0]
         ELSE [val |-> parseVIntRest(data, U64(data[1] % LengthMask(length)), 1, length),
               n |-> length]

\* the delta taken as an unsigned 16-bit number
ZeroExtend16(hi, lo) == <<0, 0, 0, 0, 0, 0, hi, lo>>

\* uint64(int16(hi)<<8 | int16(lo)): the sign-extended 16-bit delta
SignExtend16(hi, lo) ==
    IF hi >= 128 THEN <<255, 255, 255, 255, 255, 255, hi, lo>>
    ELSE <<0, 0, 0, 0, 0, 0, hi, lo>>

\* flags & 0x06
LacingType(flags) == ((flags \div 2) % 4) * 2

\* the Xiph loop: the offset after frameCount-1 size entries
RECURSIVE XiphRun(_, _)
XiphRun(frameData, t) ==
    IF t < Len(frameData) /\ frameData[t + 1] = 255 THEN XiphRun(frameData, t + 1) ELSE t

RECURSIVE XiphSizeBytes(_, _, _, _)
XiphSizeBytes(frameData, i, frameCount, totalSizeBytes) ==
    IF i >= frameCount - 1 \/ totalSizeBytes >= Len(frameData) THEN totalSizeBytes
    ELSE LET t == XiphRun(frameData, totalSizeBytes) IN
         XiphSizeBytes(frameData, i + 1, frameCount,
                       IF t < Len(frameData) THEN t + 1 ELSE t)

\* a lacing switch that drops the first size header of an EBML-laced block
DelaceWithoutSize(lacingType, frameCount, frameData) ==
    IF lacingType = 2 /\ frameCount > 1
    THEN SubSeq(frameData, 1, Len(frameData) \div frameCount)
    ELSE IF lacingType = 6 /\ frameCount > 1
    THEN LET t == XiphSizeBytes(frameData, 0, frameCount, 0) IN
         IF t < Len(frameData) THEN SubSeq(frameData, t + 1, Len(frameData)) ELSE frameData
    ELSE IF lacingType = 4 /\ frameCount > 1 /\ Len(frameData) > 1
    THEN Tail(frameData)
    ELSE frameData

\* the lacing switch of parseSimpleBlock, on the bytes after the frame count
Delace(lacingType, frameCount, frameData) ==
    IF lacingType = 2 /\ frameCount > 1
    THEN SubSeq(frameData, 1, Len(frameData) \div frameCount)
    ELSE IF lacingType = 6 /\ frameCount > 1
    THEN LET t == XiphSizeBytes(frameData, 0, frameCount, 0) IN
         IF t < Len(frameData) THEN SubSeq(frameData, t + 1, Len(frameData)) ELSE frameData
    ELSE frameData

\* where in frameData the slice the lacing switch leaves starts
DelaceStart(lacingType, frameCount, frameData) ==
    IF lacingType = 6 /\ frameCount > 1
         /\ XiphSizeBytes(frameData, 0, frameCount, 0) < Len(frameData)
    THEN XiphSizeBytes(frameData, 0, frameCount, 0)
    ELSE 0

\* parseSimpleBlock on the payload bytes, once read.  Data is a slice of
\* data: DataArray is the array it points into, DataOff its offset in the
\* array, DataAddr the address of the array (0 until the array is placed
\* in the heap)
SimpleBlockPacket(mp, size, data) ==
    IF Len(data) < 4 THEN [packet |-> <<>>, err |-> New("block too short")]
    ELSE LET tn == parseVInt(data)
             trackBytes == tn.n
         IN IF trackBytes = 0 THEN [packet |-> <<>>, err |-> New("invalid track number")]
            ELSE IF Len(data) < trackBytes + 2
            THEN [packet |-> <<>>, err |-> New("block too short for timestamp")]
            ELSE IF Len(data) < trackBytes + 3
            THEN [packet |-> <<>>, err |-> New("block too short for flags")]
            ELSE LET timestamp == SignExtend16(data[trackBytes + 1], data[trackBytes + 2])
                     flags == data[trackBytes + 3]
                     frameData == SubSeq(data, trackBytes + 4, Len(data))
                     lacingType == LacingType(flags)
                 IN IF lacingType # 0 /\ Len(frameData) < 1
                    THEN [packet |-> <<>>, err |-> New("laced block too short")]
                    ELSE [packet |->
                            <<[Track |-> tn.val[8],
                               StartTime |-> Add64(mp.clusterTimestamp, timestamp),
                               EndTime |-> Add64(mp.clusterTimestamp, timestamp),
                               FilePos |-> Sub64(Position(mp.reader), size),
                               Data |-> IF lacingType # 0
                                        THEN Delace(lacingType, frameData[1] + 1, Tail(frameData))
                                        ELSE frameData,
                               DataAddr |-> 0,
                               DataArray |-> data,
                               DataOff |->
                                   IF lacingType # 0
                                   THEN trackBytes + 4
                                        + DelaceStart(lacingType, frameData[1] + 1,
                                                      Tail(frameData))
                                   ELSE trackBytes + 3,
                               Flags |-> flags,
                               KF |-> flags >= 128]>>,
                          err |-> nil]

\* the parser after io.ReadFull(mp.reader.r, data) returned rf, with
\* the packet and error r that the function returns
BlockResult(mp, rf, r) ==
    [mp |-> [mp EXCEPT !.reader.off = rf.off], packet |-> r.packet, err |-> r.err]

\* parseSimpleBlock after io.ReadFull(mp.reader.r, data) returned rf
parseSimpleBlockData(mp, size, rf) ==
    IF rf.err # nil
    THEN [mp |-> [mp EXCEPT !.reader.off = rf.off], packet |-> <<>>, err |-> rf.err]
    ELSE BlockResult(mp, rf, SimpleBlockPacket(mp, size, rf.data))

parseSimpleBlock(src, mp, size) ==
    IF make(size) # nil THEN [mp |-> mp, packet |-> <<>>, err |-> make(size)]
    ELSE parseSimpleBlockData(mp, size, ReadFull(src.bytes, mp.reader.off, size))

\* case IDBlock of parseBlockGroup: there is no length check after
\* parseVInt, so the index and slice expressions can panic
BlockPacket(mp, size, blockData) ==
    IF Len(blockData) < 4 THEN [packet |-> <<>>, err |-> New("block too short")]
    ELSE LET tn == parseVInt(blockData)
             trackBytes == tn.n
         IN IF trackBytes = 0 THEN [packet |-> <<>>, err |-> New("invalid track number")]
            ELSE IF Len(blockData) < trackBytes + 2
            THEN [packet |-> <<>>, err |-> Panic("index out of range")]
            ELSE IF Len(blockData) < trackBytes + 3
            THEN [packet |-> <<>>, err |-> Panic("slice bounds out of range")]
            ELSE LET timestamp == SignExtend16(blockData[trackBytes + 1],
                                               blockData[trackBytes + 2])
                 IN [packet |->
                       <<[Track |-> tn.val[8],
                          StartTime |-> Add64(mp.clusterTimestamp, timestamp),
                          EndTime |-> Add64(mp.clusterTimestamp, timestamp),
                          FilePos |-> Sub64(Position(mp.reader), size),
                          Data |-> SubSeq(blockData, trackBytes + 4, Len(blockData)),
                          DataAddr |-> 0,
                          DataArray |-> blockData,
                          DataOff |-> trackBytes + 3,
                          Flags |-> 0,
                          KF |-> TRUE]>>,
                     err |-> nil]

\* the loop over the children of a BlockGroup
RECURSIVE parseBlockGroupChildren(_, _, _, _, _, _)
RECURSIVE parseBlockGroupBlock(_, _, _, _, _, _)
RECURSIVE parseBlockGroupNext(_, _, _, _, _, _)
\* the Block case, once the packet (or the failure) b is computed
parseBlockGroupBlock(mp, size, data, duration, r, b) ==
    IF b.err # nil THEN [packet |-> <<>>, duration |-> duration, err |-> b.err]
    ELSE parseBlockGroupChildren(mp, size, data, r.er, b.packet, duration)

\* one iteration of the loop, after reader.ReadElement() returned r
parseBlockGroupNext(mp, size, data, packet, duration, r) ==
    IF r.err # nil
    THEN IF r.err = EOF THEN [packet |-> packet, duration |-> duration, err |-> nil]
         ELSE [packet |-> <<>>, duration |-> duration, err |-> r.err]
    ELSE IF r.el.ID = IDBlock
    THEN parseBlockGroupBlock(mp, size, data, duration, r, BlockPacket(mp, size, r.el.Data))
    ELSE IF r.el.ID = IDBlockDuration
    THEN parseBlockGroupChildren(mp, size, data, r.er, packet, ReadUInt(r.el))
    ELSE parseBlockGroupChildren(mp, size, data, r.er, packet, duration)

\* the loop over the children of a BlockGroup
parseBlockGroupChildren(mp, size, data, er, packet, duration) ==
    IF ~SLess64(er.pos, U64(Len(data)))
    THEN [packet |-> packet, duration |-> duration, err |-> nil]
    ELSE parseBlockGroupNext(mp, size, data, packet, duration,
                             ReadElement(ChildSource(data), er))

\* parseBlockGroup after the loop over the children returned c
parseBlockGroupResult(c) ==
    IF c.err # nil THEN [packet |-> <<>>, err |-> c.err]
    ELSE IF c.packet # <<>> /\ c.duration # Zero64
    THEN [packet |-> <<[c.packet[1] EXCEPT
                          !.EndTime = Add64(c.packet[1].StartTime, c.duration)]>>,
          err |-> nil]
    ELSE [packet |-> c.packet, err |-> nil]

\* parseBlockGroup after io.ReadFull(mp.reader.r, data) returned rf
parseBlockGroupData(mp, size, rf) ==
    IF rf.err # nil
    THEN [mp |-> [mp EXCEPT !.reader.off = rf.off], packet |-> <<>>, err |-> rf.err]
    ELSE BlockResult(mp, rf,
             parseBlockGroupResult(
                 parseBlockGroupChildren(mp, size, rf.data, NewEBMLReader, <<>>, Zero64)))

parseBlockGroup(src, mp, size) ==
    IF make(size) # nil THEN [mp |-> mp, packet |-> <<>>, err |-> make(size)]
    ELSE parseBlockGroupData(mp, size, ReadFull(src.bytes, mp.reader.off, size))

\* a parseClusterHeader that leaves the cluster timestamp as it is
parseClusterHeaderKeeps(mp, size) == mp

parseClusterHeader(mp, size) == [mp EXCEPT !.clusterTimestamp = Zero64]

\* a case of the switch that returns what the block's parser returned
ReadPacketReturn(r) == [mp |-> r.mp, packet |-> r.packet, err |-> r.err, done |-> TRUE]

\* the Timestamp case, after io.ReadFull(mp.reader.r, data) returned rf
ReadPacketTimestamp(mp1, h, rf) ==
    IF rf.err # nil
    THEN [mp |-> [mp1 EXCEPT !.reader.off = rf.off], packet |-> <<>>, err |-> rf.err,
          done |-> TRUE]
    ELSE [mp |-> [mp1 EXCEPT !.reader.off = rf.off,
                             !.clusterTimestamp =
                                 ReadUInt([ID |-> h.id, Size |-> h.size, Data |-> rf.data])],
          packet |-> <<>>, err |-> nil, done |-> FALSE]

\* the default case, after mp.reader.Seek(int64(size), io.SeekCurrent)
ReadPacketSkip(mp1, sk) ==
    IF sk.err # nil THEN [mp |-> mp1, packet |-> <<>>, err |-> sk.err, done |-> TRUE]
    ELSE [mp |-> [mp1 EXCEPT !.reader = sk.er], packet |-> <<>>, err |-> nil, done |-> FALSE]

\* the switch over the element's ID; mp1 is the parser after the header
\* was read, h the header
ReadPacketSwitch(src, mp1, h) ==
    IF h.id = IDCluster
    THEN [mp |-> parseClusterHeader(mp1, h.size), packet |-> <<>>, err |-> nil,
          done |-> FALSE]
    ELSE IF h.id = IDSimpleBlock THEN ReadPacketReturn(parseSimpleBlock(src, mp1, h.size))
    ELSE IF h.id = IDBlockGroup THEN ReadPacketReturn(parseBlockGroup(src, mp1, h.size))
    ELSE IF h.id = IDTimestamp
    THEN IF make(h.size) # nil
         THEN [mp |-> mp1, packet |-> <<>>, err |-> make(h.size), done |-> TRUE]
         ELSE ReadPacketTimestamp(mp1, h, ReadFull(src.bytes, mp1.reader.off, h.size))
    ELSE ReadPacketSkip(mp1, Seek(src, mp1.reader, h.size))

\* one iteration, after mp.reader.ReadElementHeader() returned h
ReadPacketHeader(src, mp, h) ==
    IF h.err # nil
    THEN [mp |-> [mp EXCEPT !.reader = h.er], packet |-> <<>>, err |-> h.err, done |-> TRUE]
    ELSE ReadPacketSwitch(src, [mp EXCEPT !.reader = h.er], h)

\* an allocation that hands out the array of the allocation before it
AllocateReused(heap, array) ==
    IF heap = <<>> THEN <<array>> ELSE [heap EXCEPT ![Len(heap)] = array]

\* make([]byte, size) once filled: a new array in the heap, at an address
\* no other array has
Allocate(heap, array) == Append(heap, array)

\* the heap after the arrays behind the returned packet are allocated
HeapAfter(heap, packet) ==
    IF packet = <<>> THEN heap ELSE Allocate(heap, packet[1].DataArray)

\* the returned packet, its Data pointing at the array placed last
Placed(heap, packet) ==
    IF packet = <<>> THEN packet ELSE <<[packet[1] EXCEPT !.DataAddr = Len(heap)]>>

\* One iteration of the loop of ReadPacket.  done: the call returns
\* (packet, err); otherwise the loop goes round again.
ReadPacket(src, mp) == ReadPacketHeader(src, mp, ReadElementHeader(src, mp.reader))

\* ------------------------------------------------------------------------
\* input files
\* ------------------------------------------------------------------------
\* vintEncode of the tests: a size as a 1- or 2-byte VINT
vintEncode(n) == IF n < 127 THEN <<128 + n>> ELSE <<64 + (n \div 256), n % 256>>

\* the bytes of an ID: the uint32 without its leading zero bytes
RECURSIVE IDBytes(_)
IDBytes(id) == IF Len(id) > 1 /\ id[1] = 0 THEN IDBytes(Tail(id)) ELSE id

Elem(id, payload) == IDBytes(id) \o vintEncode(Len(payload)) \o payload

RECURSIVE Concat(_)
Concat(seqs) == IF seqs = <<>> THEN <<>> ELSE seqs[1] \o Concat(Tail(seqs))

TestTitle == <<84, 101, 115, 116, 32, 84, 105, 116, 108, 101>>
frame == <<102, 114, 97, 109, 101>>
avi == <<97, 118, 105>>

\* the EBML header element of each kind of file
HeaderKinds ==
    {"matroska", "webm", "avi", "matroskaNUL", "matroskaNULNUL", "noDocType",
     "notHeader", "longID"}

HeaderBytes(kind) ==
    IF kind = "matroska" THEN Elem(IDEBMLHeader, Elem(IDEBMLDocType, matroska))
    ELSE IF kind = "webm" THEN Elem(IDEBMLHeader, Elem(IDEBMLDocType, webm))
    ELSE IF kind = "avi" THEN Elem(IDEBMLHeader, Elem(IDEBMLDocType, avi))
    ELSE IF kind = "matroskaNUL"
    THEN Elem(IDEBMLHeader, Elem(IDEBMLDocType, matroska \o <<0>>))
    ELSE IF kind = "matroskaNULNUL"
    THEN Elem(IDEBMLHeader, Elem(IDEBMLDocType, matroska \o <<0, 0>>))
    ELSE IF kind = "noDocType"
    THEN Elem(IDEBMLHeader, Elem(IDEBMLVersion, <<1>>))
    ELSE IF kind = "notHeader"
    THEN Elem(IDTags, Elem(IDEBMLDocType, matroska))
    ELSE \* a 5-byte ID whose low 32 bits are those of the EBML header ID
         <<8>> \o Elem(IDEBMLHeader, Elem(IDEBMLDocType, matroska))

\* the first element of the file carries the EBML header ID
FirstIsEBMLHeader(kind) == kind \notin {"notHeader", "longID"}

\* the doc-type string of the header, after stripping one trailing NUL
DocTypeOf(kind) ==
    IF kind \in {"matroska", "matroskaNUL", "longID", "notHeader"} THEN matroska
    ELSE IF kind = "webm" THEN webm
    ELSE IF kind = "avi" THEN avi
    ELSE IF kind = "matroskaNULNUL" THEN matroska \o <<0>>
    ELSE <<>>

\* blocks: SimpleBlock and BlockGroup elements by kind
BlockKinds ==
    {"SB", "SBneg", "BG", "BGdurFirst", "BGnodur", "BGempty", "BGshort", "SBshort",
     "SBzero", "SBnocount", "SBfixed", "SBebml", "SBxiph"}

\* the payload of the SimpleBlock, or of the Block of the BlockGroup
BlockPayload(kind) ==
    IF kind = "SB" THEN <<129, 4, 210, 128>> \o frame
    ELSE IF kind = "SBneg" THEN <<130, 255, 255, 0, 7>>
    ELSE IF kind = "BG" THEN <<129, 0, 10, 0, 1, 2>>
    ELSE IF kind = "BGdurFirst" THEN <<129, 0, 5, 0, 9>>
    ELSE IF kind = "BGnodur" THEN <<130, 0, 20, 0, 3>>
    ELSE IF kind = "BGshort" THEN <<64, 1, 0, 0>>
    ELSE IF kind = "SBshort" THEN <<129, 0, 0>>
    ELSE IF kind = "SBzero" THEN <<0, 0, 0, 128, 1>>
    ELSE IF kind = "SBnocount" THEN <<129, 0, 0, 134>>
    ELSE IF kind = "SBfixed" THEN <<129, 0, 1, 130, 1, 11, 12, 13, 14>>
    ELSE IF kind = "SBebml" THEN <<129, 0, 2, 132, 1, 130, 11, 12, 13>>
    ELSE IF kind = "SBxiph" THEN <<129, 0, 3, 134, 1, 2, 11, 12, 13>>
    ELSE <<>>

\* the BlockDuration written in the BlockGroups that have one: 40 ticks
BlockDurationBytes == <<40>>

BlockBytes(kind) ==
    IF kind = "BG"
    THEN Elem(IDBlockGroup, Elem(IDBlock, BlockPayload(kind))
                            \o Elem(IDBlockDuration, BlockDurationBytes))
    ELSE IF kind = "BGdurFirst"
    THEN Elem(IDBlockGroup, Elem(IDBlockDuration, BlockDurationBytes)
                            \o Elem(IDBlock, BlockPayload(kind)))
    ELSE IF kind = "BGnodur" THEN Elem(IDBlockGroup, Elem(IDBlock, BlockPayload(kind)))
    ELSE IF kind = "BGshort" THEN Elem(IDBlockGroup, Elem(IDBlock, BlockPayload(kind)))
    ELSE IF kind = "BGempty" THEN Elem(IDBlockGroup, Elem(IDBlockDuration, BlockDurationBytes))
    ELSE Elem(IDSimpleBlock, BlockPayload(kind))

\* blocks a well-formed file may hold: each is a SimpleBlock, or a
\* BlockGroup holding a Block, with a complete block header
WellFormedBlocks ==
    {"SB", "SBneg", "BG", "BGdurFirst", "BGnodur", "SBfixed", "SBebml", "SBxiph"}

RECURSIVE BlocksBytes(_)
BlocksBytes(kinds) ==
    IF kinds = <<>> THEN <<>> ELSE BlockBytes(kinds[1]) \o BlocksBytes(Tail(kinds))

\* the cluster timestamp of the clusters that have a Timestamp child: 1000
ClusterTime == <<3, 232>>

\* 1,000,000 and 1,000,000,000 as TimestampScale payloads
ScaleMs == <<15, 66, 64>>
ScaleS == <<59, 154, 202, 0>>

\* the children of the Segment, by kind
ChildKinds == {"Info", "Tracks", "Cues", "Void", "Cluster", "ClusterNoTS"}

IDVoid == <<0, 0, 0, 236>>

\* the name written in the i-th TrackEntry of a Tracks element: "A", "B", ...
TrackName(i) == <<64 + i>>

\* the TrackEntry elements i.. of a Tracks element; numbers[i] is the track
\* number of the i-th entry
RECURSIVE TrackEntriesBytes(_, _)
TrackEntriesBytes(numbers, i) ==
    IF i > Len(numbers) THEN <<>>
    ELSE Elem(IDTrackEntry, Elem(IDTrackNum, <<numbers[i]>>) \o Elem(IDTrackType, <<1>>)
                            \o Elem(IDTrackName, TrackName(i)))
         \o TrackEntriesBytes(numbers, i + 1)

ChildBytes(kind, scale, blocks, tracks) ==
    IF kind = "Info"
    THEN Elem(IDSegmentInfo, Elem(IDTitle, TestTitle) \o Elem(IDTimestampScale, scale))
    ELSE IF kind = "Tracks" THEN Elem(IDTracks, TrackEntriesBytes(tracks, 1))
    ELSE IF kind = "Cues" THEN Elem(IDCues, <<187, 128>>)
    ELSE IF kind = "Void" THEN Elem(IDVoid, <<0, 0>>)
    ELSE IF kind = "Cluster"
    THEN Elem(IDCluster, Elem(IDTimestamp, ClusterTime) \o BlocksBytes(blocks))
    ELSE Elem(IDCluster, BlocksBytes(blocks))

RECURSIVE ChildrenBytes(_, _, _, _)
ChildrenBytes(kinds, scale, blocks, tracks) ==
    IF kinds = <<>> THEN <<>>
    ELSE ChildBytes(kinds[1], scale, blocks, tracks)
         \o ChildrenBytes(Tail(kinds), scale, blocks, tracks)

\* the Segment header by kind of declared size: the exact size, the
\* 8-byte unknown-size sentinel, more than the bytes that follow, or the
\* exact size with bytes of another element after the end of the Segment
SegmentKinds == {"exact", "unknown", "over", "trailing"}

SegmentBytes(kind, payload) ==
    IF kind = "unknown"
    THEN IDSegment \o <<1, 255, 255, 255, 255, 255, 255, 255>> \o payload
    ELSE IF kind = "over" THEN IDSegment \o vintEncode(Len(payload) + 5) \o payload
    ELSE IF kind = "trailing"
    THEN IDSegment \o vintEncode(Len(payload)) \o payload \o Elem(IDCues, <<187, 128>>)
    ELSE IDSegment \o vintEncode(Len(payload)) \o payload

\* a description of a file, and its bytes
FileBytes(d) ==
    HeaderBytes(d.header)
    \o SegmentBytes(d.segment, ChildrenBytes(d.children, d.scale, d.blocks, d.tracks))

\* bounds of the input families
MaxChildren == 3
MaxBlocks == 2
MaxTracks == 3

SeqsUpTo(S, n) == UNION {[1..k -> S] : k \in 0..n}

\* files that vary the Segment: every sequence of children, every kind of
\* declared size; each cluster holds one SimpleBlock
WalkFiles ==
    {[header |-> "matroska", segment |-> sk, children |-> ch, scale |-> ScaleMs,
      blocks |-> <<"SB">>, tracks |-> <<1>>] :
        sk \in SegmentKinds, ch \in SeqsUpTo(ChildKinds, MaxChildren)}

\* files that vary the blocks of the one cluster
BlockFiles ==
    {[header |-> "matroska", segment |-> sk, children |-> <<"Info", "Tracks", "Cluster">>,
      scale |-> ScaleS, blocks |-> bl, tracks |-> <<1>>] :
        sk \in {"exact", "unknown"}, bl \in SeqsUpTo(BlockKinds, MaxBlocks)}

\* files that vary the EBML header
HeaderFiles ==
    {[header |-> hk, segment |-> "exact", children |-> <<"Info", "Tracks", "Cluster">>,
      scale |-> ScaleMs, blocks |-> <<"SB">>, tracks |-> <<1>>] : hk \in HeaderKinds}

\* files that vary the TrackEntry elements of the Tracks element: every
\* sequence of track numbers
TrackNumbers == {1, 2, 3}

TrackFiles ==
    {[header |-> "matroska", segment |-> "exact", children |-> <<"Info", "Tracks", "Cluster">>,
      scale |-> ScaleMs, blocks |-> <<"SB">>, tracks |-> tr] :
        tr \in SeqsUpTo(TrackNumbers, MaxTracks)}

Files == WalkFiles \cup BlockFiles \cup HeaderFiles \cup TrackFiles

\* ------------------------------------------------------------------------
\* the state machine: three decoders are built over the bytes of one file
\* and each is driven by the documented caller loop
\* ------------------------------------------------------------------------
VARIABLES
    desc,     \* the description the file was generated from
    file,     \* the bytes of the file
    mp,       \* mp[h]: the MatroskaParser of decoder h
    pc,       \* pc[h]: "new", "walk" (in parseSegmentChildren), "ready",
              \* "scan" (in ReadPacket), "failed" (no parser), "stopped"
    newRet,   \* newRet[h]: what the constructor returned
    results,  \* results[h]: what the ReadPacket calls returned, in order
    heaps,    \* heaps[h]: the arrays behind the Data of the packets decoder h
              \* returned, by address
    buf,      \* the bytes under the EBMLReader used on its own
    ebmlReader, \* that EBMLReader
    calls     \* the calls made on it, in order: [op, before, ret]

vars == <<desc, file, mp, pc, newRet, results, heaps, buf, ebmlReader, calls>>

parserVars == <<desc, file, mp, pc, newRet, results, heaps>>
readerVars == <<buf, ebmlReader, calls>>

\* NewDemuxer(r) is NewMatroskaParser(r, false) over a seekable source,
\* NewStreamingDemuxer(r) is NewMatroskaParser(&fakeSeeker{r}, true), and
\* SeekableSequential is NewMatroskaParser(r, true) over a seekable source
Demuxers == {"NewDemuxer", "NewStreamingDemuxer", "SeekableSequential"}

AvoidSeeks(h) == h # "NewDemuxer"

Source(h) ==
    [bytes |-> file, kind |-> IF h = "NewStreamingDemuxer" THEN "fakeSeeker" ELSE "bytes.Reader"]

\* the error NewDemuxer / NewStreamingDemuxer return for a parser error
DemuxerError(h, err) ==
    IF h = "NewDemuxer" THEN Errorf("failed to create parser", err)
    ELSE IF h = "NewStreamingDemuxer" THEN Errorf("failed to create streaming parser", err)
    ELSE err

Finished(h) == pc[h] \in {"failed", "stopped"}

\* the decoders are independent and used one after the other
Rank(h) == IF h = "NewDemuxer" THEN 1 ELSE IF h = "NewStreamingDemuxer" THEN 2 ELSE 3

Turn(h) == \A g \in Demuxers : Rank(g) < Rank(h) => Finished(g)

Init ==
    /\ desc \in Files
    /\ file = FileBytes(desc)
    /\ mp = [h \in Demuxers |-> NewParser(AvoidSeeks(h))]
    /\ pc = [h \in Demuxers |-> "new"]
    /\ newRet = [h \in Demuxers |-> [ok |-> FALSE, err |-> nil]]
    /\ results = [h \in Demuxers |-> <<>>]
    /\ heaps = [h \in Demuxers |-> <<>>]
    /\ buf = <<>>
    /\ ebmlReader = NewEBMLReader
    /\ calls = <<>>

\* NewMatroskaParser up to the loop of parseSegmentChildren
NewMatroskaParser(h) ==
    /\ pc[h] = "new"
    /\ Turn(h)
    /\ \E r1 \in {parseHeader(Source(h), mp[h])} :
          IF r1.err # nil
          THEN /\ mp' = [mp EXCEPT ![h] = r1.mp]
               /\ pc' = [pc EXCEPT ![h] = "failed"]
               /\ newRet' = [newRet EXCEPT ![h] =
                     [ok |-> FALSE,
                      err |-> DemuxerError(h, Errorf("failed to parse header", r1.err))]]
          ELSE \E r2 \in {parseSegment(Source(h), r1.mp)} :
                 /\ mp' = [mp EXCEPT ![h] = r2.mp]
                 /\ IF r2.err # nil
                    THEN /\ pc' = [pc EXCEPT ![h] = "failed"]
                         /\ newRet' = [newRet EXCEPT ![h] =
                               [ok |-> FALSE,
                                err |-> DemuxerError(h, Errorf("failed to parse segment",
                                                               r2.err))]]
                    ELSE /\ pc' = [pc EXCEPT ![h] = "walk"]
                         /\ UNCHANGED newRet
    /\ UNCHANGED <<desc, file, results, heaps, readerVars>>

\* one iteration of the loop of parseSegmentChildren; when the loop ends
\* NewMatroskaParser returns
SegmentChildrenLoop(h) ==
    /\ pc[h] = "walk"
    /\ \E r \in {parseSegmentChildren(Source(h), mp[h])} :
       /\ \E tracks \in (IF r.sort THEN SortSlice(r.mp.tracks) ELSE {r.mp.tracks}) :
             mp' = [mp EXCEPT ![h] = [r.mp EXCEPT !.tracks = tracks]]
       /\ IF ~r.done
          THEN UNCHANGED <<pc, newRet>>
          ELSE IF r.err = nil
          THEN /\ pc' = [pc EXCEPT ![h] = "ready"]
               /\ newRet' = [newRet EXCEPT ![h] = [ok |-> TRUE, err |-> nil]]
          ELSE /\ pc' = [pc EXCEPT ![h] = "failed"]
               /\ newRet' = [newRet EXCEPT ![h] =
                     [ok |-> FALSE,
                      err |-> DemuxerError(h, Errorf("failed to parse segment",
                                  Errorf("failed to parse segment children", r.err)))]]
    /\ UNCHANGED <<desc, file, results, heaps, readerVars>>

\* one iteration of the loop of ReadPacket; the caller calls again after
\* a return without error and stops at the first error
ReadPacketLoop(h) ==
    /\ pc[h] \in {"ready", "scan"}
    /\ \E r \in {ReadPacket(Source(h), mp[h])} :
       /\ mp' = [mp EXCEPT ![h] = r.mp]
       /\ IF ~r.done
          THEN /\ pc' = [pc EXCEPT ![h] = "scan"]
               /\ UNCHANGED <<results, heaps>>
          ELSE /\ pc' = [pc EXCEPT ![h] = IF r.err # nil THEN "stopped" ELSE "ready"]
               /\ heaps' = [heaps EXCEPT ![h] = HeapAfter(@, r.packet)]
               /\ results' = [results EXCEPT ![h] =
                                 Append(@, [packet |-> Placed(heaps'[h], r.packet),
                                            err |-> r.err])]
    /\ UNCHANGED <<desc, file, newRet, readerVars>>

Next ==
    \E h \in Demuxers :
        \/ NewMatroskaParser(h)
        \/ SegmentChildrenLoop(h)
        \/ ReadPacketLoop(h)

Spec == Init /\ [][Next]_vars

\* every decoder has ended: its constructor or its last ReadPacket call
\* returned an error
AllFinished == \A h \in Demuxers : Finished(h)

\* A call that has started runs on: the loops of NewMatroskaParser and
\* ReadPacket are plain loops of one goroutine, and the caller calls
\* ReadPacket again until it returns an error.  This is WF_vars(Next)
\* written out, []<>~ENABLED <<Next>>_vars \/ []<><<Next>>_vars, with what
\* ENABLED <<Next>>_vars is in this machine: the guards of the three
\* actions are pc[h] alone and Turn(h), so a step can be taken exactly when
\* some decoder has not finished.
Fairness == []<>AllFinished \/ []<><<Next>>_vars

SpecLive == Init /\ [][Next]_vars /\ Fairness

\* ------------------------------------------------------------------------
\* the EBMLReader on its own, over a buffer (ebml_test.go)
\* ------------------------------------------------------------------------
\* the marker bit of a VINT of the given length
Marker(length) == <<128, 64, 32, 16, 8, 4, 2, 1>>[length]

Fills == {"zero", "ones", "ramp"}

\* n bytes: all 0x00, all 0xFF, or 0x11, 0x22, ...
Fill(kind, n) ==
    [i \in 1..n |-> IF kind = "zero" THEN 0 ELSE IF kind = "ones" THEN 255
                    ELSE (17 * i) % 256]

\* VINTs of every length: the first byte with no, one or all value bits set
FirstBytes(length) ==
    {Marker(length), 2 * Marker(length) - 1}
    \cup (IF length < 8 THEN {Marker(length) + 1} ELSE {})

Prefixes(s) == {SubSeq(s, 1, k) : k \in 0..Len(s)}

\* every VINT followed by one more byte, and every truncation of it; and
\* buffers that start with 0x00
VIntBuffers ==
    UNION {Prefixes(<<f>> \o Fill(k, l - 1) \o <<170>>) :
              l \in 1..8, f \in UNION {FirstBytes(m) : m \in 1..8}, k \in Fills}
    \cup {<<0>>, <<0, 129>>}

\* elements with IDs of one to four bytes
ReaderIDs == {IDSimpleBlock, IDEBMLDocType, IDTimestampScale, IDEBMLHeader}

test == <<116, 101, 115, 116>>

\* payloads: empty, "test", and 127 bytes (the first size that takes a
\* 2-byte VINT)
Payloads == {<<>>, test, Fill("ramp", 127)}

\* two concatenated elements
ElementBuffers ==
    {Elem(a, p) \o Elem(b, q) : a \in ReaderIDs, b \in ReaderIDs,
                                p \in Payloads, q \in Payloads}

\* the size VINT with all value bits set, at each length
SentinelSize(length) == <<2 * Marker(length) - 1>> \o Fill("ones", length - 1)

\* an element whose size is the sentinel of some length, followed by 127 bytes
SentinelBuffers ==
    {IDBytes(IDSimpleBlock) \o SentinelSize(l) \o Fill("ramp", 127) : l \in 1..8}

Buffers == VIntBuffers \cup ElementBuffers \cup SentinelBuffers

MaxCalls == 3

\* no file: the parser is not used
NoFile ==
    [header |-> "none", segment |-> "none", children |-> <<>>, scale |-> <<>>,
     blocks |-> <<>>, tracks |-> <<>>]

\* NewEBMLReader(bytes.NewReader(buf))
InitReader ==
    /\ desc = NoFile
    /\ file = <<>>
    /\ mp = [h \in Demuxers |-> NewParser(AvoidSeeks(h))]
    /\ pc = [h \in Demuxers |-> "stopped"]
    /\ newRet = [h \in Demuxers |-> [ok |-> FALSE, err |-> nil]]
    /\ results = [h \in Demuxers |-> <<>>]
    /\ heaps = [h \in Demuxers |-> <<>>]
    /\ buf \in Buffers
    /\ ebmlReader = NewEBMLReader
    /\ calls = <<>>

BufSource == [bytes |-> buf, kind |-> "bytes.Reader"]

\* the call op returned r
Called(op, r) ==
    /\ ebmlReader' = r.er
    /\ calls' = Append(calls, [op |-> op, before |-> ebmlReader, ret |-> r])
    /\ UNCHANGED <<parserVars, buf>>

CallReadVInt ==
    /\ Len(calls) < MaxCalls
    /\ Called("ReadVInt", ReadVInt(BufSource, ebmlReader))

CallReadVIntID ==
    /\ Len(calls) < MaxCalls
    /\ Called("ReadVIntID", ReadVIntID(BufSource, ebmlReader))

CallReadElement ==
    /\ Len(calls) < MaxCalls
    /\ Called("ReadElement", ReadElement(BufSource, ebmlReader))

CallReadElementHeader ==
    /\ Len(calls) < MaxCalls
    /\ Called("ReadElementHeader", ReadElementHeader(BufSource, ebmlReader))

\* SkipElement with the size the ReadElementHeader call before it returned
CallSkipElement ==
    /\ Len(calls) < MaxCalls
    /\ calls # <<>>
    /\ calls[Len(calls)].op = "ReadElementHeader"
    /\ calls[Len(calls)].ret.err = nil
    /\ Called("SkipElement",
              SkipElement(BufSource, ebmlReader, calls[Len(calls)].ret.size))

NextReader ==
    \/ CallReadVInt
    \/ CallReadVIntID
    \/ CallReadElement
    \/ CallReadElementHeader
    \/ CallSkipElement

SpecReader == InitReader /\ [][NextReader]_vars

\* ------------------------------------------------------------------------
\* parseVInt beside ReadVInt: the reader is built over a buffer that holds
\* VINTs, and parseVInt is given the bytes of the buffer from the offset the
\* reader is at
\* ------------------------------------------------------------------------
InitVInt == InitReader /\ buf \in VIntBuffers

\* the bytes of the buffer the reader has not read
Unread == SubSeq(buf, Nat64(ebmlReader.off) + 1, Len(buf))

\* parseVInt is a function of its argument: it is called once at an offset
CallParseVInt ==
    /\ Len(calls) < MaxCalls
    /\ IF calls = <<>> THEN TRUE ELSE calls[Len(calls)].op # "parseVInt"
    /\ calls' = Append(calls, [op |-> "parseVInt", before |-> ebmlReader,
                               ret |-> parseVInt(Unread)])
    /\ UNCHANGED <<parserVars, buf, ebmlReader>>

NextVInt ==
    \/ CallReadVInt
    \/ CallParseVInt

SpecVInt == InitVInt /\ [][NextVInt]_vars

\* ------------------------------------------------------------------------
\* parseSimpleBlock and parseBlockGroup on their own, each on a parser whose
\* reader is over the bytes of one block (TestParseSimpleBlock)
\* ------------------------------------------------------------------------
\* track numbers 1 (one byte) and 2 (two bytes)
BlockTracks == {<<129>>, <<64, 2>>}

\* deltas 0, 10, 32767, -32768, -1, -10
BlockDeltas == {<<0, 0>>, <<0, 10>>, <<127, 255>>, <<128, 0>>, <<255, 255>>, <<255, 246>>}

\* no lacing, keyframe, fixed-size, EBML and Xiph lacing, Xiph with keyframe
BlockFlags == {0, 128, 2, 4, 6, 134}

\* what follows the flags byte.  With lacing the first byte is the frame
\* count minus one: one frame; two frames, the first of 2 bytes; three
\* frames of 1, 2 and 1 bytes; two frames, the first of 256 bytes
BlockBodies ==
    {<<>>,
     <<0, 11, 12>>,
     <<1, 2, 11, 12, 13, 14, 15>>,
     <<2, 1, 2, 11, 12, 13, 14>>,
     <<1, 255, 1>> \o Fill("ramp", 258)}

\* block payloads, and the truncations of one of them per track number
BlockPayloads ==
    {t \o d \o <<f>> \o b :
        t \in BlockTracks, d \in BlockDeltas, f \in BlockFlags, b \in BlockBodies}
    \cup UNION {Prefixes(t \o <<0, 10, 0, 11, 12>>) : t \in BlockTracks}

\* cluster timestamps 0, 10, 1000 and 2^64 - 5
ClusterTimestamps ==
    {Zero64, U64(10), U64(1000), <<255, 255, 255, 255, 255, 255, 255, 251>>}

\* the payload of the BlockDuration child, if there is one: 40 and 2^64 - 1
BlockDurations == {<<>>, <<<<40>>>>, <<Fill("ones", 8)>>}

BlockDescs ==
    {[timestamp |-> ts, duration |-> du, durationFirst |-> df] :
        ts \in ClusterTimestamps, du \in BlockDurations, df \in BOOLEAN}
    \ {[timestamp |-> ts, duration |-> <<>>, durationFirst |-> TRUE] :
          ts \in ClusterTimestamps}

InitBlock ==
    /\ desc \in BlockDescs
    /\ buf \in BlockPayloads
    /\ file = <<>>
    /\ mp = [h \in Demuxers |-> NewParser(AvoidSeeks(h))]
    /\ pc = [h \in Demuxers |-> "stopped"]
    /\ newRet = [h \in Demuxers |-> [ok |-> FALSE, err |-> nil]]
    /\ results = [h \in Demuxers |-> <<>>]
    /\ heaps = [h \in Demuxers |-> <<>>]
    /\ ebmlReader = NewEBMLReader
    /\ calls = <<>>

\* the parser the block parsers are called on
BlockParser == [NewParser(FALSE) EXCEPT !.clusterTimestamp = desc.timestamp]

\* the payload of the BlockGroup: the Block and, if any, the BlockDuration
GroupBytes ==
    IF desc.duration = <<>> THEN Elem(IDBlock, buf)
    ELSE IF desc.durationFirst
    THEN Elem(IDBlockDuration, desc.duration[1]) \o Elem(IDBlock, buf)
    ELSE Elem(IDBlock, buf) \o Elem(IDBlockDuration, desc.duration[1])

NotCalled(op) == \A i \in 1..Len(calls) : calls[i].op # op

\* the call op on the block returned r
BlockCalled(op, r) ==
    /\ calls' = Append(calls, [op |-> op, ret |-> r])
    /\ UNCHANGED <<parserVars, buf, ebmlReader>>

\* parser.parseSimpleBlock(uint64(len(blockData))) over the payload
CallParseSimpleBlock ==
    /\ NotCalled("parseSimpleBlock")
    /\ BlockCalled("parseSimpleBlock",
                   parseSimpleBlock(ChildSource(buf), BlockParser, U64(Len(buf))))

\* parser.parseBlockGroup(size) over a BlockGroup holding the payload as
\* its Block
CallParseBlockGroup ==
    /\ NotCalled("parseBlockGroup")
    /\ BlockCalled("parseBlockGroup",
                   parseBlockGroup(ChildSource(GroupBytes), BlockParser,
                                   U64(Len(GroupBytes))))

NextBlock ==
    \/ CallParseSimpleBlock
    \/ CallParseBlockGroup

SpecBlock == InitBlock /\ [][NextBlock]_vars

\* the accessors of the Demuxer facade
GetNumTracks(h) == Len(mp[h].tracks)
GetTrackInfo(h, track) == IF track >= Len(mp[h].tracks) THEN <<>> ELSE <<mp[h].tracks[track + 1]>>
GetFileInfo(h) == mp[h].fileInfo
GetCuesPos(h) == mp[h].cuesPos
GetCuesTopPos(h) == mp[h].cuesTopPos

TypeOK ==
    /\ desc \in Files
    /\ \A h \in Demuxers : pc[h] \in {"new", "walk", "ready", "scan", "failed", "stopped"}

\* ------------------------------------------------------------------------
\* what the files hold, read off their descriptions
\* ------------------------------------------------------------------------
IsCluster(kind) == kind \in {"Cluster", "ClusterNoTS"}

\* a file that follows the format: a Matroska or WebM header, a Segment of
\* exact or unknown size, and complete blocks
WellFormed(d) ==
    /\ d.header \in {"matroska", "webm", "matroskaNUL"}
    /\ d.segment \in {"exact", "unknown"}
    /\ \A i \in 1..Len(d.blocks) : d.blocks[i] \in WellFormedBlocks

\* the blocks of the file in file order, each with the kind of its cluster
RECURSIVE ExpectedBlocksFrom(_, _)
ExpectedBlocksFrom(d, i) ==
    IF i > Len(d.children) THEN <<>>
    ELSE (IF IsCluster(d.children[i])
          THEN [j \in 1..Len(d.blocks) |-> [kind |-> d.blocks[j], cluster |-> d.children[i]]]
          ELSE <<>>) \o ExpectedBlocksFrom(d, i + 1)

ExpectedBlocks(d) == ExpectedBlocksFrom(d, 1)

\* the track number, the frame bytes and the delta written in a block
\* (every generated block of WellFormedBlocks has a 1-byte track number)
BlockTrack(kind) == BlockPayload(kind)[1] - 128
BlockFrameBytes(kind) == SubSeq(BlockPayload(kind), 5, Len(BlockPayload(kind)))
BlockDelta(kind) == SignExtend16(BlockPayload(kind)[2], BlockPayload(kind)[3])

\* s occurs in t as a run of consecutive bytes
IsInfix(s, t) ==
    \E k \in 0..(Len(t) - Len(s)) : \A i \in 1..Len(s) : t[k + i] = s[i]

\* the timestamp of a cluster of the given kind, in ticks
ClusterTicks(kind) == IF kind = "Cluster" THEN ReadUIntFrom(ClusterTime, 1, Zero64) ELSE Zero64

\* the timecode scale of the document: 1,000,000 without a SegmentInfo
TimecodeScaleOf(h) ==
    IF mp[h].fileInfo = <<>> THEN DefaultTimecodeScale ELSE mp[h].fileInfo[1].TimecodeScale

\* the constructor of decoder h has returned
Constructed(h) == pc[h] \notin {"new", "walk"}

\* the TrackEntry elements a file with one Tracks element holds, in file
\* order, as the track records they describe
TrackEntries(d) ==
    [i \in 1..Len(d.tracks) |->
        [NewTrackInfo EXCEPT !.Number = d.tracks[i], !.Type = 1, !.Name = TrackName(i)]]

\* the entries of track number n, in the order they have in entries
RECURSIVE WithNumber(_, _)
WithNumber(entries, n) ==
    IF entries = <<>> THEN <<>>
    ELSE (IF Head(entries).Number = n THEN <<Head(entries)>> ELSE <<>>)
         \o WithNumber(Tail(entries), n)

\* the entries in ascending order of track number, entries of one number in
\* file order
StableByNumber(entries) ==
    WithNumber(entries, 1) \o WithNumber(entries, 2) \o WithNumber(entries, 3)

\* ------------------------------------------------------------------------
\* the claims
\* ------------------------------------------------------------------------

\* C1: a ReadPacket call made when no bytes remain in the stream returns a
\* nil packet and an error that is io.EOF itself.
C1_EndOfStreamIsEOF ==
    [][\A h \in Demuxers :
          (pc[h] = "ready" /\ Remaining(file, mp[h].reader.off) = 0 /\ ReadPacketLoop(h))
              => results'[h][Len(results'[h])] = [packet |-> <<>>, err |-> EOF]]_vars

\* C2: for a well-formed file with N blocks, a demuxer built with NewDemuxer
\* returns one packet per block in file order in calls 1..N, and call N+1
\* returns the end-of-stream signal (a nil packet with io.EOF).
C2_OnePacketPerBlock ==
    (WellFormed(desc) /\ newRet["NewDemuxer"].ok /\ Finished("NewDemuxer")) =>
        LET blocks == ExpectedBlocks(desc)
            res == results["NewDemuxer"]
        IN /\ Len(res) = Len(blocks) + 1
           /\ \A i \in 1..Len(blocks) :
                 /\ res[i].err = nil
                 /\ res[i].packet # <<>>
                 /\ res[i].packet[1].Track = BlockTrack(blocks[i].kind)
                 /\ IsInfix(res[i].packet[1].Data, BlockFrameBytes(blocks[i].kind))
           /\ res[Len(res)] = [packet |-> <<>>, err |-> EOF]

\* C3: no ReadPacket call returns a nil packet together with a nil error.
C3_PacketOrError ==
    \A h \in Demuxers : \A i \in 1..Len(results[h]) :
        ~(results[h][i].packet = <<>> /\ results[h][i].err = nil)

\* C4: the packet of a non-laced SimpleBlock has StartTime = EndTime =
\* (clusterTimestamp + delta) * TimecodeScale, the track number of the block
\* and the bytes after the flags byte as Data.
C4_SimpleBlockScaledTime ==
    \A h \in Demuxers : \A i \in 1..Len(results[h]) :
        (/\ WellFormed(desc)
         /\ i <= Len(ExpectedBlocks(desc))
         /\ ExpectedBlocks(desc)[i].kind \in {"SB", "SBneg"}
         /\ \A j \in 1..i : results[h][j].packet # <<>>) =>
            LET b == ExpectedBlocks(desc)[i]
                p == results[h][i].packet[1]
                scaled == Mul64(Add64(ClusterTicks(b.cluster), BlockDelta(b.kind)),
                                TimecodeScaleOf(h))
            IN /\ p.StartTime = scaled
               /\ p.EndTime = scaled
               /\ p.Track = BlockTrack(b.kind)
               /\ p.Data = BlockFrameBytes(b.kind)

\* C5: over a well-formed file the sequential-mode demuxers expose the same
\* file info and tracks as the random-access demuxer and their ReadPacket
\* calls return the same sequence of results.
C5_ModesAgree ==
    \A h \in Demuxers \ {"NewDemuxer"} :
        (WellFormed(desc) /\ Finished("NewDemuxer") /\ Finished(h)) =>
            /\ newRet[h].ok = newRet["NewDemuxer"].ok
            /\ newRet[h].ok =>
                  /\ GetFileInfo(h) = GetFileInfo("NewDemuxer")
                  /\ mp[h].tracks = mp["NewDemuxer"].tracks
            /\ results[h] = results["NewDemuxer"]

\* the file of createMockMatroskaFile: "matroska" header, Segment of unknown
\* size, SegmentInfo, Tracks with one TrackEntry, one Cluster
IsMockFile(d) ==
    /\ d.header = "matroska"
    /\ d.segment = "unknown"
    /\ d.children = <<"Info", "Tracks", "Cluster">>

\* C6: NewStreamingDemuxer over the mock file returns a demuxer without
\* error; GetFileInfo has the parsed title and GetNumTracks is 1.
C6_StreamingDemuxerOpens ==
    (IsMockFile(desc) /\ Constructed("NewStreamingDemuxer")) =>
        /\ newRet["NewStreamingDemuxer"].ok
        /\ newRet["NewStreamingDemuxer"].err = nil
        /\ GetFileInfo("NewStreamingDemuxer") # <<>>
        /\ GetFileInfo("NewStreamingDemuxer")[1].Title = TestTitle
        /\ GetNumTracks("NewStreamingDemuxer") = 1

\* a Cues element comes after the first Cluster
CuesAfterCluster(d) ==
    \E i, j \in 1..Len(d.children) : i < j /\ IsCluster(d.children[i]) /\ d.children[j] = "Cues"

\* C7: in sequential mode, construction over a well-formed file with a Cues
\* element after the first Cluster succeeds and GetCuesPos and
\* GetCuesTopPos are then non-zero.
C7_SequentialFindsCues ==
    \A h \in Demuxers :
        (AvoidSeeks(h) /\ WellFormed(desc) /\ CuesAfterCluster(desc) /\ Constructed(h)) =>
            /\ newRet[h].ok
            /\ GetCuesPos(h) # Zero64
            /\ GetCuesTopPos(h) # Zero64

\* C8: over a seekable source, a Segment of unknown or too large declared
\* size that holds only metadata children is constructed without error:
\* the end of the stream ends the metadata walk.
C8_EndOfStreamEndsWalk ==
    \A h \in {"NewDemuxer", "SeekableSequential"} :
        (/\ desc.header \in {"matroska", "webm"}
         /\ desc.segment \in {"unknown", "over"}
         /\ \A i \in 1..Len(desc.children) : ~IsCluster(desc.children[i])
         /\ Constructed(h)) =>
            /\ newRet[h].ok
            /\ newRet[h].err = nil
            /\ (\E i \in 1..Len(desc.children) : desc.children[i] = "Info")
                  => GetFileInfo(h) # <<>>

\* C9: every ReadPacket call returns a packet or an error value; none
\* aborts with an out-of-range index or slice, whatever the block payload.
C9_NoOutOfRange ==
    \A h \in Demuxers : \A i \in 1..Len(results[h]) : ~IsPanic(results[h][i].err)

\* C10: the constructor succeeds only if the first element is the EBML
\* header and its doc-type, less one trailing NUL, is "matroska" or "webm";
\* otherwise it returns an error and no parser.
C10_OnlyMatroskaOrWebm ==
    \A h \in Demuxers :
        Constructed(h) =>
            IF FirstIsEBMLHeader(desc.header) /\ DocTypeOf(desc.header) \in {matroska, webm}
            THEN TRUE
            ELSE ~newRet[h].ok /\ newRet[h].err # nil

C11_CountAndAscending ==
    \A h \in Demuxers :
        (Constructed(h) /\ newRet[h].ok /\ desc \in TrackFiles)
            => /\ GetNumTracks(h) = Len(desc.tracks)
               /\ \A i \in 1..(GetNumTracks(h) - 1) :
                     GetTrackInfo(h, i - 1)[1].Number <= GetTrackInfo(h, i)[1].Number
               /\ \A i \in 1..Len(desc.tracks) :
                     \E k \in 1..GetNumTracks(h) : mp[h].tracks[k] = TrackEntries(desc)[i]
               /\ desc.tracks = <<3, 1, 2>>
                     => [i \in 1..3 |-> mp[h].tracks[i].Number] = <<1, 2, 3>>

\* the BlockDuration of a BlockGroup of the given kind, in ticks
BlockDurationTicks(kind) ==
    IF kind \in {"BG", "BGdurFirst"} THEN ReadUIntFrom(BlockDurationBytes, 1, Zero64)
    ELSE Zero64

\* C12: the packet of a BlockGroup with a Block and a BlockDuration D ends
\* at its start time plus D scaled by the timecode scale, in either order of
\* the two children; without a BlockDuration it ends at its start time.
C12_BlockGroupEndTime ==
    \A h \in Demuxers : \A i \in 1..Len(results[h]) :
        (/\ WellFormed(desc)
         /\ i <= Len(ExpectedBlocks(desc))
         /\ ExpectedBlocks(desc)[i].kind \in {"BG", "BGdurFirst", "BGnodur"}
         /\ \A j \in 1..i : results[h][j].packet # <<>>) =>
            LET p == results[h][i].packet[1]
            IN p.EndTime = Add64(p.StartTime,
                                 Mul64(BlockDurationTicks(ExpectedBlocks(desc)[i].kind),
                                       TimecodeScaleOf(h)))

\* C12 in ticks: the end time is the start time plus the unscaled duration
C12_RawDuration ==
    \A h \in Demuxers : \A i \in 1..Len(results[h]) :
        (/\ WellFormed(desc)
         /\ i <= Len(ExpectedBlocks(desc))
         /\ ExpectedBlocks(desc)[i].kind \in {"BG", "BGdurFirst", "BGnodur"}
         /\ \A j \in 1..i : results[h][j].packet # <<>>) =>
            LET p == results[h][i].packet[1]
            IN p.EndTime = Add64(p.StartTime,
                                 BlockDurationTicks(ExpectedBlocks(desc)[i].kind))

\* ------------------------------------------------------------------------
\* the claims about the EBMLReader, over SpecReader
\* ------------------------------------------------------------------------
\* the offset in buf a call started at (the length of buf when past its end)
StartOf(c) ==
    IF IsSmall(c.before.off) /\ Nat64(c.before.off) < Len(buf)
    THEN Nat64(c.before.off) ELSE Len(buf)

\* the length a first byte announces: the position of its highest set bit
MarkerLength(b) == CHOOSE l \in 1..8 : Marker(l) <= b /\ b < 2 * Marker(l)

\* a complete VINT starts at offset o of buf
CanonicalAt(o) ==
    /\ o < Len(buf)
    /\ buf[o + 1] # 0
    /\ o + MarkerLength(buf[o + 1]) <= Len(buf)

\* up to eight bytes as a big-endian uint64
BigEndian(bytes) ==
    [k \in 1..8 |-> IF k <= 8 - Len(bytes) THEN 0 ELSE bytes[k - (8 - Len(bytes))]]

\* the value of the VINT at offset o, with or without its marker bit
ExpectedVInt(o, keepMarker) ==
    LET l == MarkerLength(buf[o + 1]) IN
    BigEndian(<<IF keepMarker THEN buf[o + 1] ELSE buf[o + 1] - Marker(l)>>
              \o SubSeq(buf, o + 2, o + l))

IsVIntCall(c) == c.op \in {"ReadVInt", "ReadVIntID"}

\* C13: over a complete VINT of 1 to 8 bytes ReadVInt returns the big-endian
\* value without the marker bit, ReadVIntID the big-endian value with the
\* first byte as it is, and both advance the position by the VINT's length.
C13_VIntDecoding ==
    \A i \in 1..Len(calls) :
        (IsVIntCall(calls[i]) /\ CanonicalAt(StartOf(calls[i]))) =>
            LET c == calls[i]
                l == MarkerLength(buf[StartOf(c) + 1])
            IN /\ c.ret.err = nil
               /\ c.ret.val = ExpectedVInt(StartOf(c), c.op = "ReadVIntID")
               /\ Position(c.ret.er) = Add64(Position(c.before), U64(l))
               /\ c.ret.er.off = Add64(c.before.off, U64(l))

\* an 8-byte VINT whose value bits are not all zero was decoded in value mode
C13_Witness ==
    \E i \in 1..Len(calls) :
        /\ calls[i].op = "ReadVInt"
        /\ CanonicalAt(StartOf(calls[i]))
        /\ MarkerLength(buf[StartOf(calls[i]) + 1]) = 8
        /\ calls[i].ret.err = nil
        /\ calls[i].ret.val # Zero64

\* C14: readVInt returns an error exactly when no byte is left, the first
\* byte is 0x00, or fewer bytes are left than the first byte announces; with
\* an error the value is 0.
C14_VIntErrors ==
    \A i \in 1..Len(calls) :
        IsVIntCall(calls[i]) =>
            /\ (calls[i].ret.err # nil) <=> ~CanonicalAt(StartOf(calls[i]))
            /\ calls[i].ret.err # nil => calls[i].ret.val = Zero64

\* a VINT with value bits in its first byte was cut short and the call failed
C14_Witness ==
    \E i \in 1..Len(calls) :
        /\ IsVIntCall(calls[i])
        /\ StartOf(calls[i]) < Len(buf)
        /\ buf[StartOf(calls[i]) + 1] \notin {0} \cup {Marker(l) : l \in 1..8}
        /\ StartOf(calls[i]) + MarkerLength(buf[StartOf(calls[i]) + 1]) > Len(buf)
        /\ calls[i].ret.err # nil

\* the element with the given ID and payload, as ReadElement returns it
ExpectedElement(id, payload) == [ID |-> id, Size |-> U64(Len(payload)), Data |-> payload]

\* C15: two ReadElement calls over two concatenated elements return the
\* first and then the second, each with its ID, its declared size and its
\* payload, and leave Position() at the length of the buffer.
C15_TwoElements ==
    (Len(calls) >= 2 /\ calls[1].op = "ReadElement" /\ calls[2].op = "ReadElement") =>
    \A a \in ReaderIDs, b \in ReaderIDs, p \in Payloads, q \in Payloads :
        buf = Elem(a, p) \o Elem(b, q) =>
            /\ calls[1].ret.err = nil
            /\ calls[1].ret.el = ExpectedElement(a, p)
            /\ calls[2].ret.err = nil
            /\ calls[2].ret.el = ExpectedElement(b, q)
            /\ Len(calls[2].ret.el.Data) = Len(q)
            /\ Position(calls[2].ret.er) = U64(Len(buf))

\* two elements with different IDs and payloads, the first with a 2-byte
\* size, were read one after the other
C15_Witness ==
    /\ buf = Elem(IDEBMLHeader, Fill("ramp", 127)) \o Elem(IDEBMLDocType, test)
    /\ Len(calls) = 2
    /\ calls[1].op = "ReadElement"
    /\ calls[2].op = "ReadElement"
    /\ calls[2].ret.el.Data = test

\* s is the start of t
IsPrefix(s, t) == Len(s) <= Len(t) /\ SubSeq(t, 1, Len(s)) = s

\* C16: ReadElement fails whenever the size VINT has all its value bits
\* set, at every length of the size VINT.
C16_UnknownSizeRejected ==
    (calls # <<>> /\ calls[1].op = "ReadElement") =>
    \A l \in 1..8 :
        IsPrefix(IDBytes(IDSimpleBlock) \o SentinelSize(l), buf) => calls[1].ret.err # nil

\* C16 for the 8-byte size VINT alone: the one form ReadElement rejects
C16_EightByteRejected ==
    (/\ calls # <<>>
     /\ calls[1].op = "ReadElement"
     /\ IsPrefix(IDBytes(IDSimpleBlock) \o SentinelSize(8), buf)) =>
        calls[1].ret.err = New("unknown size elements not supported")

\* C19: ReadElementHeader returns the ID and size and leaves the reader at
\* the first payload byte; SkipElement with that size then moves the stream
\* and Position() by the size, and the next ReadElement returns the element
\* that follows.
C19_HeaderSkipRead ==
    (calls # <<>> /\ calls[1].op = "ReadElementHeader") =>
    \A a \in ReaderIDs, b \in ReaderIDs, p \in Payloads, q \in Payloads :
        buf = Elem(a, p) \o Elem(b, q) =>
            LET start == U64(Len(Elem(a, p)) - Len(p)) IN
            /\ calls[1].ret.err = nil
            /\ calls[1].ret.id = a
            /\ calls[1].ret.size = U64(Len(p))
            /\ calls[1].ret.er = [off |-> start, pos |-> start]
            /\ (Len(calls) >= 2 /\ calls[2].op = "SkipElement") =>
                  /\ calls[2].ret.err = nil
                  /\ calls[2].ret.er = [off |-> U64(Len(Elem(a, p))),
                                         pos |-> U64(Len(Elem(a, p)))]
            /\ (Len(calls) >= 3 /\ calls[2].op = "SkipElement"
                   /\ calls[3].op = "ReadElement") =>
                  /\ calls[3].ret.err = nil
                  /\ calls[3].ret.el = ExpectedElement(b, q)

\* a header was read, its 127-byte payload skipped, and the element after
\* it read
C19_Witness ==
    /\ buf = Elem(IDEBMLDocType, Fill("ramp", 127)) \o Elem(IDEBMLHeader, test)
    /\ Len(calls) = 3
    /\ calls[1].op = "ReadElementHeader"
    /\ calls[2].op = "SkipElement"
    /\ calls[3].op = "ReadElement"
    /\ calls[3].ret.el.ID = IDEBMLHeader

\* ------------------------------------------------------------------------
\* the claims about the decoder, over Spec
\* ------------------------------------------------------------------------
\* the file has one Cues child, and no Cluster before it
OneCuesBeforeClusters(d) ==
    \E k \in 1..Len(d.children) :
        /\ d.children[k] = "Cues"
        /\ \A j \in 1..Len(d.children) : j # k => d.children[j] # "Cues"
        /\ \A j \in 1..(k - 1) : ~IsCluster(d.children[j])

CuesIndex(d) == CHOOSE k \in 1..Len(d.children) : d.children[k] = "Cues"

\* the payload of the Cues element written by ChildBytes
CuesPayload == <<187, 128>>

\* the offset in the file of the first payload byte of the Cues child: the
\* EBML header, the Segment's ID and size, the children before the Cues
\* element, and the ID and size of the Cues element
CuesPayloadOffset(d) ==
    LET all == ChildrenBytes(d.children, d.scale, d.blocks, d.tracks)
        before == ChildrenBytes(SubSeq(d.children, 1, CuesIndex(d) - 1),
                                d.scale, d.blocks, d.tracks)
    IN Len(HeaderBytes(d.header)) + (Len(SegmentBytes(d.segment, all)) - Len(all))
       + Len(before) + (Len(Elem(IDCues, CuesPayload)) - Len(CuesPayload))

\* C17: after construction over a file with a Cues element, GetCuesPos is
\* the offset in the file of the first byte of the Cues payload and
\* GetCuesTopPos the offset just after the payload, whatever precedes the
\* Cues element.
C17_CuesOffsets ==
    \A h \in Demuxers :
        (/\ Constructed(h) /\ newRet[h].ok
         /\ WellFormed(desc) /\ OneCuesBeforeClusters(desc)) =>
            /\ GetCuesPos(h) = U64(CuesPayloadOffset(desc))
            /\ GetCuesTopPos(h) = U64(CuesPayloadOffset(desc) + Len(CuesPayload))

\* C17 where no SegmentInfo and no Tracks element precedes the Cues element
C17_CuesOffsetsAfterSkipped ==
    \A h \in Demuxers :
        (/\ Constructed(h) /\ newRet[h].ok
         /\ WellFormed(desc) /\ OneCuesBeforeClusters(desc)
         /\ \A j \in 1..(CuesIndex(desc) - 1) : desc.children[j] \notin {"Info", "Tracks"}) =>
            /\ GetCuesPos(h) = U64(CuesPayloadOffset(desc))
            /\ GetCuesTopPos(h) = U64(CuesPayloadOffset(desc) + Len(CuesPayload))

\* C20: after a successful construction and after every ReadPacket call
\* that returned a packet, Position() of the parser's reader is the number
\* of bytes consumed from the source.
C20_PositionIsOffset ==
    \A h \in Demuxers :
        (WellFormed(desc) /\ newRet[h].ok /\ pc[h] = "ready") =>
            Position(mp[h].reader) = mp[h].reader.off

\* C20 over files whose Segment holds only elements the walk skips
C20_PositionAfterSkips ==
    \A h \in Demuxers :
        (/\ WellFormed(desc) /\ newRet[h].ok /\ pc[h] = "ready"
         /\ \A j \in 1..Len(desc.children) : desc.children[j] \in {"Cues", "Void"}) =>
            Position(mp[h].reader) = mp[h].reader.off

\* the bytes the Data slice of packet p of decoder h points at
Storage(h, p) ==
    SubSeq(heaps[h][p.DataAddr], p.DataOff + 1, p.DataOff + Len(p.Data))

\* C18: the bytes behind the Data of a returned packet stay as they were
\* when it was returned, whatever ReadPacket calls follow, and no two
\* returned packets point into the same array.
C18_DataNotShared ==
    \A h \in Demuxers : \A i \in 1..Len(results[h]) :
        results[h][i].packet # <<>> =>
            /\ Storage(h, results[h][i].packet[1]) = results[h][i].packet[1].Data
            /\ \A j \in 1..Len(results[h]) :
                  (j # i /\ results[h][j].packet # <<>>) =>
                      results[h][j].packet[1].DataAddr # results[h][i].packet[1].DataAddr

\* two packets with different bytes were returned, the first from a
\* SimpleBlock and the second from a BlockGroup, and a further call followed
C18_Witness ==
    \E h \in Demuxers :
        /\ Len(results[h]) = 3
        /\ results[h][1].packet # <<>>
        /\ results[h][2].packet # <<>>
        /\ results[h][1].packet[1].Data = frame
        /\ results[h][2].packet[1].Data = <<1, 2>>

\* the file has a Cluster among the children of its Segment
HasCluster(d) == \E k \in 1..Len(d.children) : IsCluster(d.children[k])

FirstClusterIndex(d) ==
    CHOOSE k \in 1..Len(d.children) :
        IsCluster(d.children[k]) /\ \A j \in 1..(k - 1) : ~IsCluster(d.children[j])

\* the offset in the file of the first byte of the k-th child of the
\* Segment: the EBML header, the Segment's ID and size, the children before
ChildOffset(d, k) ==
    LET all == ChildrenBytes(d.children, d.scale, d.blocks, d.tracks)
        before == ChildrenBytes(SubSeq(d.children, 1, k - 1), d.scale, d.blocks, d.tracks)
    IN Len(HeaderBytes(d.header)) + (Len(SegmentBytes(d.segment, all)) - Len(all))
       + Len(before)

\* the number of bytes of the ID and size of the k-th child
ChildHeaderLen(d, k) ==
    LET payload == IF d.children[k] = "Cluster"
                   THEN Elem(IDTimestamp, ClusterTime) \o BlocksBytes(d.blocks)
                   ELSE BlocksBytes(d.blocks)
    IN Len(ChildBytes(d.children[k], d.scale, d.blocks, d.tracks)) - Len(payload)

\* C21: when NewMatroskaParser(r, false) has returned, the stream is at the
\* first byte of the ID of the first Cluster.
C21_ClusterHeaderUnconsumed ==
    (/\ WellFormed(desc) /\ HasCluster(desc)
     /\ newRet["NewDemuxer"].ok
     /\ pc["NewDemuxer"] = "ready"
     /\ results["NewDemuxer"] = <<>>) =>
        mp["NewDemuxer"].reader.off = U64(ChildOffset(desc, FirstClusterIndex(desc)))

\* where the stream is instead: at the first byte after the ID and size of
\* the first Cluster
C21_ClusterHeaderConsumed ==
    (/\ WellFormed(desc) /\ HasCluster(desc)
     /\ newRet["NewDemuxer"].ok
     /\ pc["NewDemuxer"] = "ready"
     /\ results["NewDemuxer"] = <<>>) =>
        mp["NewDemuxer"].reader.off =
            U64(ChildOffset(desc, FirstClusterIndex(desc))
                + ChildHeaderLen(desc, FirstClusterIndex(desc)))

\* C22: the start time of every returned packet is, in ticks, the delta of
\* its block added to the Timestamp of the block's own cluster, or to 0 when
\* that cluster has no Timestamp; the timestamp of an earlier cluster is
\* never used.
C22_ClusterTimeBase ==
    \A h \in Demuxers : \A i \in 1..Len(results[h]) :
        (/\ WellFormed(desc)
         /\ i <= Len(ExpectedBlocks(desc))
         /\ \A j \in 1..i : results[h][j].packet # <<>>) =>
            results[h][i].packet[1].StartTime =
                Add64(ClusterTicks(ExpectedBlocks(desc)[i].cluster),
                      BlockDelta(ExpectedBlocks(desc)[i].kind))

\* a packet was returned from a cluster without a Timestamp that follows a
\* cluster with one
C22_Witness ==
    \E h \in Demuxers : \E i \in 2..Len(results[h]) :
        /\ WellFormed(desc)
        /\ i <= Len(ExpectedBlocks(desc))
        /\ ExpectedBlocks(desc)[i - 1].cluster = "Cluster"
        /\ ExpectedBlocks(desc)[i].cluster = "ClusterNoTS"
        /\ \A j \in 1..i : results[h][j].packet # <<>>
        /\ results[h][i].packet[1].StartTime = BlockDelta(ExpectedBlocks(desc)[i].kind)

\* ------------------------------------------------------------------------
\* the claims about the block parsers, over SpecBlock
\* ------------------------------------------------------------------------
Made(op) == \E i \in 1..Len(calls) : calls[i].op = op

\* what the call op returned
RetOf(op) == calls[CHOOSE i \in 1..Len(calls) : calls[i].op = op].ret

\* the number of bytes of the track number of the payload, and the bytes
\* after it: two of delta, one of flags, then the body
TrackLen == MarkerLength(buf[1])
Complete == Len(buf) >= 4 /\ Len(buf) >= TrackLen + 3
FlagsByte == buf[TrackLen + 3]
Body == SubSeq(buf, TrackLen + 4, Len(buf))

\* flags & 0x06 of the payload, read off its bits
Lacing == IF ~Complete THEN 0 ELSE 2 * ((FlagsByte \div 2) % 4)

\* C23: the Block of a BlockGroup and a SimpleBlock with the same payload
\* give packets with the same Track, StartTime and Data, for every payload.
C23_BlockLikeSimpleBlock ==
    (Made("parseSimpleBlock") /\ Made("parseBlockGroup")) =>
        ((RetOf("parseSimpleBlock").packet # <<>> \/ RetOf("parseBlockGroup").packet # <<>>)
            => /\ RetOf("parseSimpleBlock").packet # <<>>
               /\ RetOf("parseBlockGroup").packet # <<>>
               /\ RetOf("parseBlockGroup").packet[1].Track
                     = RetOf("parseSimpleBlock").packet[1].Track
               /\ RetOf("parseBlockGroup").packet[1].StartTime
                     = RetOf("parseSimpleBlock").packet[1].StartTime
               /\ RetOf("parseBlockGroup").packet[1].Data
                     = RetOf("parseSimpleBlock").packet[1].Data)

\* C23 over the payloads whose flags select no lacing
C23_UnlacedAgree ==
    (Made("parseSimpleBlock") /\ Made("parseBlockGroup") /\ Lacing = 0) =>
        ((RetOf("parseSimpleBlock").packet # <<>> \/ RetOf("parseBlockGroup").packet # <<>>)
            => /\ RetOf("parseSimpleBlock").packet # <<>>
               /\ RetOf("parseBlockGroup").packet # <<>>
               /\ RetOf("parseBlockGroup").packet[1].Track
                     = RetOf("parseSimpleBlock").packet[1].Track
               /\ RetOf("parseBlockGroup").packet[1].StartTime
                     = RetOf("parseSimpleBlock").packet[1].StartTime
               /\ RetOf("parseBlockGroup").packet[1].Data
                     = RetOf("parseSimpleBlock").packet[1].Data
               /\ RetOf("parseBlockGroup").packet[1].KF)

\* Xiph size entries: a run of 0xFF bytes and one terminating byte.  The
\* number of 0xFF bytes of the entry that starts after the first k bytes
RECURSIVE XiphRunLen(_, _)
XiphRunLen(bytes, k) ==
    IF k < Len(bytes) /\ bytes[k + 1] = 255 THEN 1 + XiphRunLen(bytes, k + 1) ELSE 0

\* the number of bytes the first count entries take, from offset k
RECURSIVE XiphEntriesEnd(_, _, _)
XiphEntriesEnd(bytes, k, count) ==
    IF count = 0 THEN k
    ELSE XiphEntriesEnd(bytes, k + XiphRunLen(bytes, k) + 1, count - 1)

\* the size the first entry encodes
XiphFirstSize(bytes) == 255 * XiphRunLen(bytes, 0) + bytes[XiphRunLen(bytes, 0) + 1]

\* the payload is a Xiph-laced block of more than one frame whose size
\* entries and first frame are all there
XiphLaced ==
    /\ Complete
    /\ Lacing = 6
    /\ Len(Body) >= 1
    /\ Body[1] >= 1
    /\ XiphEntriesEnd(Tail(Body), 0, Body[1]) < Len(Body) - 1
    /\ XiphEntriesEnd(Tail(Body), 0, Body[1]) + XiphFirstSize(Tail(Body)) <= Len(Body) - 1

\* C24: for a Xiph-laced SimpleBlock of n > 1 frames the Data of the packet
\* is the first frame alone: it starts after the n-1 size entries and has
\* the length the first entry encodes.
C24_XiphFirstFrame ==
    (Made("parseSimpleBlock") /\ XiphLaced) =>
        /\ RetOf("parseSimpleBlock").packet # <<>>
        /\ RetOf("parseSimpleBlock").packet[1].Data =
              SubSeq(Tail(Body), XiphEntriesEnd(Tail(Body), 0, Body[1]) + 1,
                     XiphEntriesEnd(Tail(Body), 0, Body[1]) + XiphFirstSize(Tail(Body)))

\* what the Data is instead: everything after the n-1 size entries
C24_XiphAllFrames ==
    (Made("parseSimpleBlock") /\ XiphLaced) =>
        /\ RetOf("parseSimpleBlock").packet # <<>>
        /\ RetOf("parseSimpleBlock").packet[1].Data =
              SubSeq(Tail(Body), XiphEntriesEnd(Tail(Body), 0, Body[1]) + 1, Len(Body) - 1)

\* C25: for an EBML-laced SimpleBlock the Data of the packet is every byte
\* of the payload after the frame-count byte, size headers included, for
\* every frame count.
C25_EBMLLacingKeepsAll ==
    (Made("parseSimpleBlock") /\ Complete /\ Lacing = 4 /\ Len(Body) >= 1) =>
        /\ RetOf("parseSimpleBlock").err = nil
        /\ RetOf("parseSimpleBlock").packet # <<>>
        /\ RetOf("parseSimpleBlock").packet[1].Data = Tail(Body)

\* an EBML-laced block of three frames was parsed, size headers kept
C25_Witness ==
    /\ Made("parseSimpleBlock")
    /\ Complete
    /\ Lacing = 4
    /\ Body = <<2, 1, 2, 11, 12, 13, 14>>
    /\ RetOf("parseSimpleBlock").packet # <<>>
    /\ RetOf("parseSimpleBlock").packet[1].Data = <<1, 2, 11, 12, 13, 14>>

\* the packets the calls on the block returned
ReturnedPackets == {calls[i].ret.packet[1] : i \in {j \in 1..Len(calls) : calls[j].ret.packet # <<>>}}

\* C26: every returned packet has EndTime >= StartTime as unsigned 64-bit
\* numbers, for every cluster timestamp, delta and BlockDuration.
C26_EndNotBeforeStart ==
    \A p \in ReturnedPackets : ~Less64(p.EndTime, p.StartTime)

\* C26 for parseSimpleBlock alone, and for BlockGroups without BlockDuration
C26_EndIsStartWithoutDuration ==
    \A i \in 1..Len(calls) :
        (/\ calls[i].ret.packet # <<>>
         /\ calls[i].op = "parseSimpleBlock" \/ desc.duration = <<>>) =>
            calls[i].ret.packet[1].EndTime = calls[i].ret.packet[1].StartTime

\* the delta of the payload as an integer in -32768..32767
DeltaOf ==
    LET u == 256 * buf[TrackLen + 1] + buf[TrackLen + 2]
    IN IF u >= 32768 THEN u - 65536 ELSE u

\* clusterTimestamp + d is not negative
SumNotNegative == DeltaOf >= 0 \/ ~Less64(desc.timestamp, U64(-DeltaOf))

\* C27: the two delta bytes are a signed 16-bit big-endian number d, and
\* whenever clusterTimestamp + d >= 0 the start tick of the packet is
\* clusterTimestamp + d modulo 2^64.
C27_SignedDelta ==
    \A p \in ReturnedPackets :
        SumNotNegative =>
            p.StartTime = IF DeltaOf >= 0 THEN Add64(desc.timestamp, U64(DeltaOf))
                          ELSE Sub64(desc.timestamp, U64(-DeltaOf))

\* the delta 0xFF 0xFF over the cluster timestamp 10 gave the start tick 9,
\* from a SimpleBlock and from a Block
C27_Witness ==
    /\ desc.timestamp = U64(10)
    /\ Complete
    /\ DeltaOf = -1
    /\ Made("parseSimpleBlock") /\ RetOf("parseSimpleBlock").packet # <<>>
    /\ Made("parseBlockGroup") /\ RetOf("parseBlockGroup").packet # <<>>
    /\ \A p \in ReturnedPackets : p.StartTime = U64(9)

\* the offset in the file just after the declared size of the Segment: the
\* EBML header, the Segment's ID and size, and the declared number of bytes
DeclaredSegmentEnd(d) ==
    LET all == ChildrenBytes(d.children, d.scale, d.blocks, d.tracks)
    IN Len(HeaderBytes(d.header))
       + Len(SegmentBytes(IF d.segment = "trailing" THEN "exact" ELSE d.segment, all))
       + (IF d.segment = "over" THEN 5 ELSE 0)

\* decoder h is in the loop of parseSegmentChildren, the loop condition
\* holds, and the iteration reads the ID and size of a child
ReadsChildHeader(h) ==
    /\ pc[h] = "walk"
    /\ SLess64(Position(mp[h].reader),
               Add64(mp[h].segment[1].Position, mp[h].segment[1].Size))
    /\ ReadElementHeader(Source(h), mp[h].reader).err = nil

\* C28: over a Segment with a declared size, the metadata walk reads no
\* child header that starts at or after the offset in the file where the
\* Segment ends.
C28_NoChildPastSegmentEnd ==
    \A h \in Demuxers :
        (desc.segment # "unknown" /\ ReadsChildHeader(h)) =>
            Nat64(mp[h].reader.off) < DeclaredSegmentEnd(desc)

\* C28 for the files whose Segment holds neither SegmentInfo nor Tracks
C28_WithoutInfoAndTracks ==
    \A h \in Demuxers :
        (/\ desc.segment # "unknown"
         /\ \A k \in 1..Len(desc.children) : desc.children[k] \notin {"Info", "Tracks"}
         /\ ReadsChildHeader(h)) =>
            Nat64(mp[h].reader.off) < DeclaredSegmentEnd(desc)

\* an iteration of the loop of parseSegmentChildren, or of the loop of
\* ReadPacket, of decoder h that goes round again has moved the stream
\* forward
Consumes(h) ==
    /\ (pc[h] = "walk" /\ pc'[h] = "walk") =>
            Less64(mp[h].reader.off, mp'[h].reader.off)
    /\ (pc[h] \in {"ready", "scan"} /\ pc'[h] = "scan") =>
            Less64(mp[h].reader.off, mp'[h].reader.off)

\* C29: every iteration of the segment-children loop and of the scan loop
\* of ReadPacket consumes at least one byte or ends the call, and so
\* NewMatroskaParser and every ReadPacket call return: every decoder ends
\* with no call under way, its constructor or its last ReadPacket having
\* returned an error.
C29_Terminates ==
    /\ [][\A h \in Demuxers : Consumes(h)]_vars
    /\ <>AllFinished

\* the walk skipped a Void element and stopped at the first Cluster, three
\* ReadPacket calls scanned the two Clusters and their Timestamps, and the
\* last call returned the end of the file
C29_Witness ==
    /\ desc.children = <<"Void", "Cluster", "Cluster">>
    /\ desc.segment = "exact"
    /\ pc["NewDemuxer"] = "stopped"
    /\ newRet["NewDemuxer"].ok
    /\ Len(results["NewDemuxer"]) = 3
    /\ results["NewDemuxer"][1].packet # <<>>
    /\ results["NewDemuxer"][2].packet # <<>>
    /\ mp["NewDemuxer"].reader.off = U64(Len(file))

\* calls i and j are a parseVInt and a ReadVInt over the same bytes
SameBytes(i, j) ==
    /\ calls[i].op = "parseVInt"
    /\ calls[j].op = "ReadVInt"
    /\ calls[i].before.off = calls[j].before.off

\* C30: parseVInt(b) returns n > 0 exactly when ReadVInt over b succeeds,
\* and then its value is ReadVInt's and n the number of bytes ReadVInt
\* consumed; it returns n = 0 exactly when ReadVInt fails.
C30_ParseVIntIsReadVInt ==
    \A i, j \in 1..Len(calls) :
        SameBytes(i, j) =>
            /\ calls[i].ret.n \in 0..8
            /\ (calls[i].ret.n > 0) <=> (calls[j].ret.err = nil)
            /\ (calls[i].ret.n = 0) <=> (calls[j].ret.err # nil)
            /\ calls[i].ret.n > 0 =>
                  /\ calls[i].ret.val = calls[j].ret.val
                  /\ calls[j].ret.er.off = Add64(calls[j].before.off, U64(calls[i].ret.n))

\* both decoded the 8-byte VINT 01 11 22 33 44 55 66 77 to the same value
C30_Witness ==
    /\ buf = <<1>> \o Fill("ramp", 7) \o <<170>>
    /\ \E i, j \in 1..Len(calls) :
          /\ SameBytes(i, j)
          /\ calls[i].ret = [val |-> <<0, 17, 34, 51, 68, 85, 102, 119>>, n |-> 8]
          /\ calls[j].ret.err = nil
          /\ calls[j].ret.val = calls[i].ret.val

====
